---- MODULE Spec2Model ----
(***************************************************************************)
(* A model of gphoto_automations: the retry executor                       *)
(* (gphoto_backup/utils.py, gphoto_backup/drive.py), the resumable upload  *)
(* loop of DriveClient.upload_file, the DriveClient caches and the two     *)
(* orchestration loops (scripts/backup_favorites.py and                    *)
(* scripts/check_takeout_and_process.py).                                  *)
(*                                                                         *)
(* Four specifications share the module:                                   *)
(*   SpecRetry    with_retries / DriveClient._execute_with_retries         *)
(*   SpecUpload   the resumable branch of DriveClient.upload_file          *)
(*   SpecFavorite _parse_favorite_flag                                     *)
(*   Spec         runs of the two scripts against one remote store         *)
(***************************************************************************)
EXTENDS Integers, Sequences, FiniteSets, TLC

VARIABLES
  \* ---- retry executor (utils.with_retries, DriveClient._execute_with_retries)
  retry_exec,      \* which of the two executors is running
  retry_policy,    \* the RetryPolicy passed by the caller
  retry_script,    \* what fn() does on its 1st, 2nd, ... invocation
  retry_attempt,   \* the loop variable `attempt`
  retry_calls,     \* number of fn() invocations so far
  retry_sleeps,    \* the caps handed to sleep_backoff, in order
  retry_last_err,  \* `last_err`
  retry_pc,        \* "loop" | "returned" | "raised"
  retry_out,       \* the value returned or the error raised
  \* ---- resumable upload (DriveClient.upload_file, resumable=True)
  upload_policy,   \* the RetryPolicy of the upload
  upload_chunks,   \* number of chunks of the file
  upload_attempt,  \* the loop variable `attempt`
  upload_offset,   \* chunks acknowledged by the remote session
  upload_log,      \* every next_chunk() call: chunk index and outcome
  upload_sleeps,   \* the caps handed to sleep_backoff, in order
  upload_last_err, \* `last_err`
  upload_pc,       \* "chunks" | "done" | "failed" | "propagated"
  upload_out,      \* the artifact id returned or the error raised
  \* ---- inputs of the two scripts
  script,          \* "backup_favorites" | "check_takeout_and_process"
  library,         \* the media items the Photos search yields, in order
  staging,         \* the children of the Takeout folder, in listing order
  \* ---- the remote store (Drive)
  folders,         \* folders[i]: the folder with id i
  artifacts,       \* artifacts[i]: the uploaded file with id i
  zip_marked,      \* ids of the zips whose appProperties carry takeoutProcessed
  \* ---- one run of a script (one process)
  run,             \* number of runs started
  pc,              \* "idle" | "items" | "zips" | "entries"
  dry_run,         \* args.dry_run
  max_zips,        \* args.max_zips
  date_folder_cache, \* DriveClient._date_folder_cache
  id_exists_cache, \* DriveClient._id_exists_cache
  counts,          \* Counts
  failures,        \* the list `failures`
  pos,             \* position in the item loop / in `pending`
  pending,         \* the zips selected for this run
  epos,            \* position in the metadata entries of the open zip
  exit_status,     \* of the last run ended: 0, 1, or -1 while none has ended
  crashed,         \* the last run ended by an exception that left main()
  faults,          \* remote calls that raised so far
  \* ---- history
  trace,           \* what this run did with each candidate, in order
  done_runs,       \* the runs that ended: their flags, counts and trace
  arts_at_start,   \* Len(artifacts) when this run started
  temp_files,      \* the per-candidate temporary files on the disk of the runner
  ever_uploaded,    \* the identities an upload_file gave to a non-trashed file
  \* ---- _parse_favorite_flag
  fav_meta,        \* the metadata dict handed to _parse_favorite_flag
  fav_pc,          \* "idle" | "parse" | "returned"
  fav_out,         \* the value returned
  \* ---- _extract_taken_time_iso
  time_meta,       \* the metadata dict handed to _extract_taken_time_iso
  time_pc,         \* "idle" | "extract" | "returned"
  time_out,        \* the value returned
  \* ---- two overlapping runs of backup_favorites.py
  race_folders,    \* the folders of the store the two runs share
  race_artifacts,  \* its uploaded files
  race_proc,       \* per run: position in the loop body, item, caches, answers
  \* ---- download_file / download_to_path
  dl_fn,           \* which of the two functions runs
  dl_policy,       \* the RetryPolicy passed by the caller
  dl_size,         \* number of chunks of the remote content
  dl_dest,         \* the chunks the destination file holds
  dl_offset,       \* chunks the current attempt has read
  dl_attempt,      \* the loop variable `attempt` of the executor
  dl_pc,           \* "idle" | "call" | "stream" | "done" | "failed" | "propagated"
  dl_out,          \* how the call ended
  dl_wasted,       \* chunks written by attempts that failed
  \* ---- PhotosClient.search_favorites_by_date_range
  sr_pages,        \* the pages the remote holds
  sr_policy,       \* the RetryPolicy of the page fetches
  sr_token,        \* the local page_token
  sr_result,       \* the PhotosSearchResult of the last fetch
  sr_pos,          \* position of the for loop in result.media_items
  sr_attempt,      \* the loop variable `attempt` of with_retries
  sr_pc,           \* "idle" | "fetch" | "yield" | "ended" | "raised"
  sr_yielded,      \* the items delivered to the consumer, in order
  sr_log,          \* the fetch attempts: token sent, items delivered before, outcome
  \* ---- DriveClient.list_children
  ls_pages,        \* the pages the remote holds
  ls_token,        \* the local page_token
  ls_out,          \* the local list `out`
  ls_pc,           \* "idle" | "request" | "test" | "returned" | "raised"
  ls_ret,          \* the value returned, NoReturn while there is none
  ls_log           \* the requests: token sent, page answered, outcome

retryVars == <<retry_exec, retry_policy, retry_script, retry_attempt, retry_calls,
               retry_sleeps, retry_last_err, retry_pc, retry_out>>
uploadVars == <<upload_policy, upload_chunks, upload_attempt, upload_offset,
                upload_log, upload_sleeps, upload_last_err, upload_pc, upload_out>>
runVars == <<script, library, staging, folders, artifacts, zip_marked, run, pc, dry_run,
             max_zips, date_folder_cache, id_exists_cache, counts, failures, pos,
             pending, epos, exit_status, crashed, faults, trace, done_runs,
             arts_at_start, temp_files, ever_uploaded>>
favVars == <<fav_meta, fav_pc, fav_out>>

timeVars == <<time_meta, time_pc, time_out>>

raceVars == <<race_folders, race_artifacts, race_proc>>

dlVars ==
  <<dl_fn, dl_policy, dl_size, dl_dest, dl_offset, dl_attempt, dl_pc, dl_out, dl_wasted>>

srVars ==
  <<sr_pages, sr_policy, sr_token, sr_result, sr_pos, sr_attempt, sr_pc, sr_yielded, sr_log>>

lsVars == <<ls_pages, ls_token, ls_out, ls_pc, ls_ret, ls_log>>

vars == <<retryVars, uploadVars, runVars, favVars, timeVars, raceVars, dlVars, srVars, lsVars>>

\* Python's None where an error or a result is expected.
None == [cls |-> "None", call |-> 0]

Min(a, b) == IF a <= b THEN a ELSE b

RECURSIVE Pow2(_)
Pow2(n) == IF n <= 0 THEN 1 ELSE 2 * Pow2(n - 1)

(***************************************************************************)
(* Bounds of the model.                                                    *)
(***************************************************************************)
MaxPolicyRetries == 2   \* RetryPolicy.max_retries ranges over 0..MaxPolicyRetries
MaxChunks == 5          \* a resumable upload has 1..MaxChunks chunks

(***************************************************************************)
(* RetryPolicy (utils.py): the defaults of base_sleep_s and max_sleep_s.   *)
(***************************************************************************)
BaseSleepS == 1
MaxSleepS == 30

RetryPolicy(n) == [max_retries |-> n, base_sleep_s |-> BaseSleepS, max_sleep_s |-> MaxSleepS]

Policies == {RetryPolicy(n) : n \in 0..MaxPolicyRetries}

(***************************************************************************)
(* Exception classes and the classes each one is an instance of.           *)
(* requests.RequestException derives from IOError, that is OSError.        *)
(***************************************************************************)
ErrClasses == {"HttpError", "RequestException", "ValueError"}

InstanceOf(cls) ==
  CASE cls = "HttpError" -> {"HttpError"}
    [] cls = "RequestException" -> {"RequestException", "OSError"}
    [] cls = "ValueError" -> {"ValueError"}

\* The except clause of each executor.
RetryOnAll(exec) == {"HttpError", "socket.timeout", "OSError", "RequestException", "ValueError"}

RetryOn(exec) ==
  IF exec = "with_retries"
  THEN {"RequestException"}                       \* retry_on of every call site
  ELSE {"HttpError", "socket.timeout", "OSError"} \* _execute_with_retries

IsRetryable(exec, cls) == InstanceOf(cls) \cap RetryOn(exec) # {}

\* sleep_backoff: the cap of the full-jitter sleep, uniform(0, cap).
SleepBackoffCap(attempt, policy) ==
  Min(policy.max_sleep_s, policy.base_sleep_s * Pow2(attempt))

\* `if attempt >= policy.max_retries: break`
ExhaustedOffByOne(attempt, policy) == attempt + 1 >= policy.max_retries

Exhausted(attempt, policy) == attempt >= policy.max_retries

\* `raise last_err` after the loop: the error kept in last_err.
RaiseFirstErr(last, err) == IF last = None THEN err ELSE last

KeepLastErr(last, err) == err

(***************************************************************************)
(* The retry executor, one loop iteration per step.                        *)
(***************************************************************************)
ScriptLen == MaxPolicyRetries + 2

Outcomes == {"ok"} \cup ErrClasses

RECURSIVE SeqsOfLen(_, _)
SeqsOfLen(S, n) ==
  IF n = 0 THEN {<<>>}
  ELSE {Append(s, x) : s \in SeqsOfLen(S, n - 1), x \in S}

\* An error (or, with cls = "ok", a result) tagged with the invocation it came from.
Err(cls, call) == [cls |-> cls, call |-> call]

RetryIdle ==
  /\ retry_exec = "idle"
  /\ retry_policy = RetryPolicy(0)
  /\ retry_script = <<>>
  /\ retry_attempt = 0
  /\ retry_calls = 0
  /\ retry_sleeps = <<>>
  /\ retry_last_err = None
  /\ retry_pc = "idle"
  /\ retry_out = None

RetryCanCall ==
  /\ retry_pc = "loop"
  /\ retry_attempt <= retry_policy.max_retries
  /\ retry_calls < Len(retry_script)

NextOutcome == retry_script[retry_calls + 1]

\* `return fn()`
RetryReturn ==
  /\ RetryCanCall
  /\ NextOutcome = "ok"
  /\ retry_calls' = retry_calls + 1
  /\ retry_pc' = "returned"
  /\ retry_out' = Err("ok", retry_calls + 1)
  /\ UNCHANGED <<retry_exec, retry_policy, retry_script, retry_attempt,
                 retry_sleeps, retry_last_err>>

\* an exception outside the except clause leaves the loop at once
RetryPropagate ==
  /\ RetryCanCall
  /\ NextOutcome # "ok"
  /\ ~IsRetryable(retry_exec, NextOutcome)
  /\ retry_calls' = retry_calls + 1
  /\ retry_pc' = "raised"
  /\ retry_out' = Err(NextOutcome, retry_calls + 1)
  /\ UNCHANGED <<retry_exec, retry_policy, retry_script, retry_attempt,
                 retry_sleeps, retry_last_err>>

\* except ...: last_err = e; attempts remain: sleep_backoff, next iteration
RetryBackoff ==
  /\ RetryCanCall
  /\ NextOutcome # "ok"
  /\ IsRetryable(retry_exec, NextOutcome)
  /\ ~Exhausted(retry_attempt, retry_policy)
  /\ retry_calls' = retry_calls + 1
  /\ retry_last_err' = KeepLastErr(retry_last_err, Err(NextOutcome, retry_calls + 1))
  /\ retry_sleeps' = Append(retry_sleeps, SleepBackoffCap(retry_attempt, retry_policy))
  /\ retry_attempt' = retry_attempt + 1
  /\ IF retry_attempt + 1 > retry_policy.max_retries
     THEN \* range(max_retries + 1) is used up: assert, raise last_err
          /\ retry_pc' = "raised"
          /\ retry_out' = retry_last_err'
     ELSE UNCHANGED <<retry_pc, retry_out>>
  /\ UNCHANGED <<retry_exec, retry_policy, retry_script>>

\* except ...: last_err = e; attempt >= max_retries: break, raise last_err
RetryExhausted ==
  /\ RetryCanCall
  /\ NextOutcome # "ok"
  /\ IsRetryable(retry_exec, NextOutcome)
  /\ Exhausted(retry_attempt, retry_policy)
  /\ retry_calls' = retry_calls + 1
  /\ retry_last_err' = KeepLastErr(retry_last_err, Err(NextOutcome, retry_calls + 1))
  /\ retry_pc' = "raised"
  /\ retry_out' = retry_last_err'
  /\ UNCHANGED <<retry_exec, retry_policy, retry_script, retry_attempt, retry_sleeps>>

RetryNext ==
  \/ RetryReturn /\ UNCHANGED <<uploadVars, runVars, favVars, timeVars, raceVars, dlVars, srVars, lsVars>>
  \/ RetryPropagate /\ UNCHANGED <<uploadVars, runVars, favVars, timeVars, raceVars, dlVars, srVars, lsVars>>
  \/ RetryBackoff /\ UNCHANGED <<uploadVars, runVars, favVars, timeVars, raceVars, dlVars, srVars, lsVars>>
  \/ RetryExhausted /\ UNCHANGED <<uploadVars, runVars, favVars, timeVars, raceVars, dlVars, srVars, lsVars>>

(***************************************************************************)
(* DriveClient.upload_file, resumable=True: one request.next_chunk() call  *)
(* per step.  The remote session keeps the acknowledged chunks, so the     *)
(* call after an error sends the chunk that failed.                        *)
(***************************************************************************)
UploadIdle ==
  /\ upload_policy = RetryPolicy(0)
  /\ upload_chunks = 0
  /\ upload_attempt = 0
  /\ upload_offset = 0
  /\ upload_log = <<>>
  /\ upload_sleeps = <<>>
  /\ upload_last_err = None
  /\ upload_pc = "idle"
  /\ upload_out = None

\* next_chunk() after an error: the offset the transfer goes on from.
ResumeFromZero(offset) == 0

ResumeOffset(offset) == offset

\* the budget test of the upload loop, `if attempt >= policy.max_retries: break`
UploadBudgetOffByOne(attempt, policy) == attempt > policy.max_retries

UploadExhausted(attempt, policy) == attempt >= policy.max_retries

\* `while response is None:` runs inside one pass of `for attempt in ...`: an
\* acknowledged chunk leaves attempt as it is
ResetAfterAck(attempt) == 0

AttemptAfterAck(attempt) == attempt

UploadCanCall ==
  /\ upload_pc = "chunks"
  /\ upload_attempt <= upload_policy.max_retries

Call(chunk, outcome) == [chunk |-> chunk, outcome |-> outcome]

\* status, response = request.next_chunk(): a chunk that is not the last is acknowledged
UploadChunkAck ==
  /\ UploadCanCall
  /\ upload_offset + 1 < upload_chunks
  /\ upload_log' = Append(upload_log, Call(upload_offset, "ok"))
  /\ upload_offset' = upload_offset + 1
  /\ upload_attempt' = AttemptAfterAck(upload_attempt)
  /\ UNCHANGED <<upload_policy, upload_chunks, upload_sleeps, upload_last_err, upload_pc,
                 upload_out>>

\* the last chunk is acknowledged: response is set, return response["id"]
UploadDone ==
  /\ UploadCanCall
  /\ upload_offset + 1 = upload_chunks
  /\ upload_log' = Append(upload_log, Call(upload_offset, "ok"))
  /\ upload_offset' = upload_offset + 1
  /\ upload_pc' = "done"
  /\ upload_out' = Err("ok", Len(upload_log) + 1)
  /\ UNCHANGED <<upload_policy, upload_chunks, upload_attempt, upload_sleeps,
                 upload_last_err>>

\* except (HttpError, socket.timeout, OSError): attempts remain
UploadRetry ==
  /\ UploadCanCall
  /\ \E cls \in ErrClasses :
       /\ IsRetryable("upload_file", cls)
       /\ ~UploadExhausted(upload_attempt, upload_policy)
       /\ upload_log' = Append(upload_log, Call(upload_offset, cls))
       /\ upload_last_err' = Err(cls, Len(upload_log) + 1)
       /\ upload_sleeps' = Append(upload_sleeps, SleepBackoffCap(upload_attempt, upload_policy))
       /\ upload_attempt' = upload_attempt + 1
       /\ upload_offset' = ResumeOffset(upload_offset)
       /\ IF upload_attempt + 1 > upload_policy.max_retries
          THEN \* range(max_retries + 1) is used up: assert, raise last_err
               /\ upload_pc' = "failed"
               /\ upload_out' = upload_last_err'
          ELSE UNCHANGED <<upload_pc, upload_out>>
  /\ UNCHANGED <<upload_policy, upload_chunks>>

\* except (HttpError, socket.timeout, OSError): attempt >= max_retries, break, raise last_err
UploadFailed ==
  /\ UploadCanCall
  /\ \E cls \in ErrClasses :
       /\ IsRetryable("upload_file", cls)
       /\ UploadExhausted(upload_attempt, upload_policy)
       /\ upload_log' = Append(upload_log, Call(upload_offset, cls))
       /\ upload_last_err' = Err(cls, Len(upload_log) + 1)
       /\ upload_pc' = "failed"
       /\ upload_out' = upload_last_err'
  /\ UNCHANGED <<upload_policy, upload_chunks, upload_attempt, upload_offset, upload_sleeps>>

\* an exception of another class leaves upload_file at once
UploadPropagate ==
  /\ UploadCanCall
  /\ \E cls \in ErrClasses :
       /\ ~IsRetryable("upload_file", cls)
       /\ upload_log' = Append(upload_log, Call(upload_offset, cls))
       /\ upload_pc' = "propagated"
       /\ upload_out' = Err(cls, Len(upload_log) + 1)
  /\ UNCHANGED <<upload_policy, upload_chunks, upload_attempt, upload_offset,
                 upload_sleeps, upload_last_err>>

UploadNext ==
  \/ UploadChunkAck /\ UNCHANGED <<retryVars, runVars, favVars, timeVars, raceVars, dlVars, srVars, lsVars>>
  \/ UploadDone /\ UNCHANGED <<retryVars, runVars, favVars, timeVars, raceVars, dlVars, srVars, lsVars>>
  \/ UploadRetry /\ UNCHANGED <<retryVars, runVars, favVars, timeVars, raceVars, dlVars, srVars, lsVars>>
  \/ UploadFailed /\ UNCHANGED <<retryVars, runVars, favVars, timeVars, raceVars, dlVars, srVars, lsVars>>
  \/ UploadPropagate /\ UNCHANGED <<retryVars, runVars, favVars, timeVars, raceVars, dlVars, srVars, lsVars>>

(***************************************************************************)
(* The remote store, the inputs and the DriveClient of one run.            *)
(***************************************************************************)
MaxRuns == 2     \* runs of the script in one behaviour
MaxItems == 2    \* items the Photos search yields
MaxFaults == 1   \* remote calls that raise in one behaviour

\* DRIVE_FOLDER_ID
Root == "root"

EmptyMap == [x \in {} |-> 0]

Folder(name, trashed) == [parent |-> Root, name |-> name, trashed |-> trashed]

\* an uploaded file: the identity entry of its appProperties and its parent
Artifact(prop, value, parent, trashed) ==
  [prop |-> prop, value |-> value, parent |-> parent, trashed |-> trashed]

\* an RFC3339 time in UTC, a string that is no time, or no value
Utc(day, hour) == [kind |-> "utc", day |-> day, hour |-> hour]
BadTime == [kind |-> "bad", day |-> 0, hour |-> 0]
NoTime == [kind |-> "none", day |-> 0, hour |-> 0]

\* iso_to_kst_date: the date in Asia/Seoul (UTC+9); raises on a string that is no time
IsoToKstDateUtc(t) == [ok |-> t.kind = "utc", date |-> t.day]

IsoToKstDate(t) == [ok |-> t.kind = "utc", date |-> t.day + ((t.hour + 9) \div 24)]

Item(id, baseUrl, creationTime, mimeType) ==
  [id |-> id, baseUrl |-> baseUrl, creationTime |-> creationTime, mimeType |-> mimeType]

ItemPool ==
  { Item("k1", TRUE, Utc(1, 3), "image/jpeg"),
    Item("k2", TRUE, Utc(1, 20), "video/mp4"),
    Item("k1", TRUE, BadTime, "image/jpeg"),
    Item("k2", FALSE, Utc(1, 3), "image/jpeg"),
    Item("", TRUE, Utc(1, 3), "image/jpeg"),
    Item("k1", TRUE, NoTime, "image/jpeg") }

Libraries == UNION {SeqsOfLen(ItemPool, n) : n \in 0..MaxItems}

\* what the store holds before the first run; `own` is the identity property
\* of the script that runs, `other` the one of the other script
InitStores(own, other) ==
  { [folders |-> <<>>, artifacts |-> <<>>],
    [folders |-> <<Folder(1, TRUE)>>, artifacts |-> <<Artifact(own, "k1", 1, FALSE)>>],
    [folders |-> <<Folder(1, FALSE), Folder(1, FALSE)>>,
     artifacts |-> <<Artifact(other, "k1", 1, FALSE), Artifact(own, "k1", 2, TRUE)>>] }

ZeroCounts ==
  [total |-> 0, uploaded |-> 0, skipped |-> 0, failed |-> 0,
   takeout_files_seen |-> 0, takeout_files_processed |-> 0, favorites_found |-> 0]

\* a remote call and whether it returned (TRUE) or raised (FALSE)
Called(op, ok) == [op |-> op, ok |-> ok]

FaultPoints == {"none", "ensure.list", "ensure.create", "exists.list", "download", "upload"}

(***************************************************************************)
(* DriveClient.ensure_date_folder.  `f` names the remote call that raises  *)
(* ("none": no call does); `pick` is the folder the listing returns first  *)
(* (pageSize=1, the order of the matches is the remote's), 0 for none.     *)
(***************************************************************************)
MatchingNone(flds, root, name) == {}

MatchingFolders(flds, root, name) ==
  {i \in 1..Len(flds) : flds[i].parent = root /\ flds[i].name = name /\ ~flds[i].trashed}

\* self._date_folder_cache[key] = folder_id
NoDateFolderCache(cache, key, id) == cache

StoreDateFolder(cache, key, id) == cache @@ (key :> id)

EnsureDateFolder(cache, flds, root, name, f, pick) ==
  LET key == <<root, name>>
      files == MatchingFolders(flds, root, name)
  IN IF key \in DOMAIN cache
     THEN [ok |-> TRUE, id |-> cache[key], cache |-> cache, folders |-> flds,
           calls |-> <<Called("ensure.cache", TRUE)>>, pickOk |-> pick = 0]
     ELSE IF f = "ensure.list"
     THEN [ok |-> FALSE, id |-> 0, cache |-> cache, folders |-> flds,
           calls |-> <<Called("ensure.list", FALSE)>>, pickOk |-> pick = 0]
     ELSE IF files # {}
     THEN [ok |-> TRUE, id |-> pick, cache |-> StoreDateFolder(cache, key, pick),
           folders |-> flds, calls |-> <<Called("ensure.list", TRUE)>>,
           pickOk |-> pick \in files]
     ELSE IF f = "ensure.create"
     THEN [ok |-> FALSE, id |-> 0, cache |-> cache, folders |-> flds,
           calls |-> <<Called("ensure.list", TRUE), Called("ensure.create", FALSE)>>,
           pickOk |-> pick = 0]
     ELSE [ok |-> TRUE, id |-> Len(flds) + 1,
           cache |-> StoreDateFolder(cache, key, Len(flds) + 1),
           folders |-> Append(flds, [parent |-> root, name |-> name, trashed |-> FALSE]),
           calls |-> <<Called("ensure.list", TRUE), Called("ensure.create", TRUE)>>,
           pickOk |-> pick = 0]

(***************************************************************************)
(* DriveClient.already_uploaded (prop = "mediaItemId", cache key the id)   *)
(* and already_uploaded_by_sha256 (prop = "sha256", cache key              *)
(* "sha256:" + hex).                                                       *)
(***************************************************************************)
CacheKey(prefix, value) == [prefix |-> prefix, value |-> value]

\* the files.list query: trashed=false and appProperties has {key, value}
HasIdentityWrongKey(arts, prop, value) ==
  \E i \in 1..Len(arts) :
    arts[i].prop = "mediaItemID" /\ arts[i].value = value /\ ~arts[i].trashed

HasIdentity(arts, prop, value) ==
  \E i \in 1..Len(arts) : arts[i].prop = prop /\ arts[i].value = value /\ ~arts[i].trashed

AlreadyUploaded(cache, arts, prop, prefix, value, f) ==
  LET key == CacheKey(prefix, value)
      exists == HasIdentity(arts, prop, value)
  IN IF key \in DOMAIN cache
     THEN [ok |-> TRUE, exists |-> cache[key], cache |-> cache,
           calls |-> <<Called("exists.cache", TRUE)>>]
     ELSE IF f = "exists.list"
     THEN [ok |-> FALSE, exists |-> FALSE, cache |-> cache,
           calls |-> <<Called("exists.list", FALSE)>>]
     ELSE [ok |-> TRUE, exists |-> exists, cache |-> cache @@ (key :> exists),
           calls |-> <<Called("exists.list", TRUE)>>]

\* upload_file: files().create with appProperties carrying the identity
UploadWithoutIdentity(arts, prop, value, parent) ==
  Append(arts, Artifact("source", "google_photos", parent, FALSE))

UploadUnlessPresent(arts, prop, value, parent) ==
  IF HasIdentity(arts, prop, value) THEN arts ELSE Append(arts, Artifact(prop, value, parent, FALSE))

UploadFile(arts, prop, value, parent) == Append(arts, Artifact(prop, value, parent, FALSE))

(***************************************************************************)
(* The temporary file of a candidate: tempfile.mkstemp before the download *)
(* (backup_favorites.py), tempfile.NamedTemporaryFile(delete=False) before *)
(* the extraction (_process_zip); os.remove in the finally clause.         *)
(***************************************************************************)
\* the pipeline got as far as the creation of its temporary file
CreatedTemp(calls) == \E k \in 1..Len(calls) : calls[k].op \in {"download", "extract"}

LeaveFile(files, name) == files

OsRemove(files, name) == files \ {name}

\* the files on disk after the pipeline of the candidate has ended
TempFilesAfter(files, name, r) ==
  IF CreatedTemp(r.calls) THEN OsRemove(files \cup {name}, name) ELSE files

(***************************************************************************)
(* scripts/backup_favorites.py: the body of the item loop of main().       *)
(***************************************************************************)
\* what one pass of a loop body did: the new store and caches, the remote calls
\* in order, the date folder (label, -1: none; id, 0: none returned) and the answer
\* of the existence check ("none": no answer)
Outcome(outcome, flds, arts, dcache, ecache, calls, pickOk, label, folder, exists) ==
  [outcome |-> outcome, folders |-> flds, artifacts |-> arts, dcache |-> dcache,
   ecache |-> ecache, calls |-> calls, pickOk |-> pickOk, label |-> label,
   folder |-> folder, exists |-> exists]

Answer(a) == IF a.exists THEN "true" ELSE "false"

\* `if drive.already_uploaded(...): skipped` and `if args.dry_run: skipped`
SkipOnlyDryRun(exists, dry) == dry

SkipOnlyIfExists(exists, dry) == exists

SkipBranch(exists, dry) == exists \/ dry

\* `if not (media_item_id and base_url and creation_time)`
MissingIdOnly(item) == item.id = ""

MissingRequiredFields(item) ==
  item.id = "" \/ ~item.baseUrl \/ item.creationTime.kind = "none"

LiveBody(item, dry, f, pick) ==
  IF MissingRequiredFields(item)
  THEN Outcome("failed", folders, artifacts, date_folder_cache, id_exists_cache, <<>>,
               pick = 0, -1, 0, "none")
  ELSE
  LET d == IsoToKstDate(item.creationTime) IN
  IF ~d.ok
  THEN \* ValueError outside the try block
       Outcome("raised", folders, artifacts, date_folder_cache, id_exists_cache, <<>>,
               pick = 0, -1, 0, "none")
  ELSE
  LET e == EnsureDateFolder(date_folder_cache, folders, Root, d.date, f, pick) IN
  IF ~e.ok
  THEN \* the call is outside the try block too
       Outcome("raised", e.folders, artifacts, e.cache, id_exists_cache, e.calls,
               e.pickOk, d.date, 0, "none")
  ELSE
  LET a == AlreadyUploaded(id_exists_cache, artifacts, "mediaItemId", "", item.id, f) IN
  IF ~a.ok
  THEN Outcome("failed", e.folders, artifacts, e.cache, a.cache, e.calls \o a.calls,
               e.pickOk, d.date, e.id, "none")
  ELSE IF SkipBranch(a.exists, dry)
  THEN Outcome("skipped", e.folders, artifacts, e.cache, a.cache, e.calls \o a.calls,
               e.pickOk, d.date, e.id, Answer(a))
  ELSE IF f = "download"
  THEN Outcome("failed", e.folders, artifacts, e.cache, a.cache,
               e.calls \o a.calls \o <<Called("download", FALSE)>>,
               e.pickOk, d.date, e.id, Answer(a))
  ELSE IF f = "upload"
  THEN Outcome("failed", e.folders, artifacts, e.cache, a.cache,
               e.calls \o a.calls \o <<Called("download", TRUE), Called("upload", FALSE)>>,
               e.pickOk, d.date, e.id, Answer(a))
  ELSE Outcome("uploaded", e.folders, UploadFile(artifacts, "mediaItemId", item.id, e.id),
               e.cache, a.cache,
               e.calls \o a.calls \o <<Called("download", TRUE), Called("upload", TRUE)>>,
               e.pickOk, d.date, e.id, Answer(a))

\* the call named by f was made and raised
FaultHit(r, f) ==
  \/ f = "none"
  \/ Len(r.calls) > 0 /\ r.calls[Len(r.calls)] = Called(f, FALSE)

Identity(prop, value) == [prop |-> prop, value |-> value]

\* one entry of the history: the candidate (zip id or 0, position), its
\* identity, how it was counted, the calls made for it, its date folder, the
\* answer of its existence check, and whether an upload_file had given its
\* identity to a file before
Step(cand, prop, key, r) ==
  [cand |-> cand, key |-> key, outcome |-> r.outcome, calls |-> r.calls,
   label |-> r.label, folder |-> r.folder, exists |-> r.exists,
   known |-> Identity(prop, key) \in ever_uploaded]

\* an entry of the history for a step that handles no candidate
Event(cand, outcome, calls) ==
  [cand |-> cand, key |-> "", outcome |-> outcome, calls |-> calls,
   label |-> -1, folder |-> 0, exists |-> "none", known |-> FALSE]

Summary(status, crash, cnt, tr) ==
  [run |-> run, dry_run |-> dry_run, exit_status |-> status, crashed |-> crash,
   counts |-> cnt, trace |-> tr]

BumpButFailed(cnt, outcome) ==
  CASE outcome = "uploaded" -> [cnt EXCEPT !.uploaded = @ + 1]
    [] outcome = "skipped" -> [cnt EXCEPT !.skipped = @ + 1]
    [] OTHER -> cnt

Bump(cnt, outcome) ==
  CASE outcome = "uploaded" -> [cnt EXCEPT !.uploaded = @ + 1]
    [] outcome = "skipped" -> [cnt EXCEPT !.skipped = @ + 1]
    [] outcome = "failed" -> [cnt EXCEPT !.failed = @ + 1]
    [] OTHER -> cnt

Failure(reason, id) == [reason |-> reason, id |-> id]

\* `return 1 if counts.failed else 0`
ExitAlwaysZero(cnt) == 0

ExitStatus(cnt) == IF cnt.failed # 0 THEN 1 ELSE 0

\* a run that ends before its first step after the start
EndedAtStart(dry, status, crash, tr) ==
  [run |-> run + 1, dry_run |-> dry, exit_status |-> status, crashed |-> crash,
   counts |-> ZeroCounts, trace |-> tr]

StartRun(dry, zips) ==
  /\ pc = "idle"
  /\ run < MaxRuns
  /\ run' = run + 1
  /\ dry_run' = dry
  /\ max_zips' = zips
  /\ date_folder_cache' = EmptyMap
  /\ id_exists_cache' = EmptyMap
  /\ failures' = <<>>
  /\ pos' = 1
  /\ epos' = 0
  /\ arts_at_start' = Len(artifacts)
  /\ UNCHANGED temp_files

\* main() up to the item loop
LiveStart ==
  /\ script = "backup_favorites"
  /\ \E dry \in BOOLEAN, f \in {"none", "env", "credentials"} :
       /\ StartRun(dry, 0)
       /\ f # "none" => faults < MaxFaults
       /\ faults' = faults + (IF f = "none" THEN 0 ELSE 1)
       /\ IF f = "none"
          THEN /\ pc' = "items"
               /\ exit_status' = -1
               /\ crashed' = FALSE
               /\ trace' = <<>>
               /\ UNCHANGED done_runs
          ELSE \* _env, build_credentials or the scope check raises: the
               \* exception leaves main()
               /\ pc' = "idle"
               /\ exit_status' = 1
               /\ crashed' = TRUE
               /\ trace' = <<Event(<<0, 0>>, "raised", <<Called(f, FALSE)>>)>>
               /\ done_runs' = Append(done_runs, EndedAtStart(dry, 1, TRUE, trace'))
  /\ counts' = ZeroCounts
  /\ UNCHANGED <<ever_uploaded, script, library, staging, folders, artifacts, zip_marked, pending>>

\* one iteration of `for item in photos.search_favorites_by_date_range(...)`
LiveItem ==
  /\ pc = "items"
  /\ pos <= Len(library)
  /\ \E f \in FaultPoints, pick \in 0..Len(folders) :
       LET item == library[pos]
           r == LiveBody(item, dry_run, f, pick)
           cnt == Bump([counts EXCEPT !.total = @ + 1], r.outcome)
           tr == Append(trace, Step(<<0, pos>>, "mediaItemId", item.id, r))
       IN /\ r.pickOk
          /\ FaultHit(r, f)
          /\ f # "none" => faults < MaxFaults
          /\ faults' = faults + (IF f = "none" THEN 0 ELSE 1)
          /\ folders' = r.folders
          /\ artifacts' = r.artifacts
          /\ date_folder_cache' = r.dcache
          /\ id_exists_cache' = r.ecache
          /\ counts' = cnt
          /\ trace' = tr
          /\ temp_files' = TempFilesAfter(temp_files, <<0, pos>>, r)
          /\ ever_uploaded' =
               IF r.outcome = "uploaded"
               THEN ever_uploaded \cup {Identity("mediaItemId", item.id)}
               ELSE ever_uploaded
          /\ failures' =
               IF r.outcome # "failed" THEN failures
               ELSE IF MissingRequiredFields(item)
               THEN Append(failures, Failure("missing_required_fields", item.id))
               ELSE Append(failures, Failure("error", item.id))
          /\ IF r.outcome = "raised"
             THEN \* the exception leaves main(): the process ends
                  /\ pc' = "idle"
                  /\ exit_status' = 1
                  /\ crashed' = TRUE
                  /\ done_runs' = Append(done_runs, Summary(1, TRUE, cnt, tr))
                  /\ pos' = pos
             ELSE /\ pos' = pos + 1
                  /\ UNCHANGED <<pc, exit_status, crashed, done_runs>>
  /\ UNCHANGED <<script, library, staging, zip_marked, run, dry_run, max_zips, pending,
                 epos, arts_at_start>>

\* after the loop: the summary, the mail, `return 1 if counts.failed else 0`
LiveFinish ==
  /\ pc = "items"
  /\ pos > Len(library)
  /\ pc' = "idle"
  /\ \E f \in {"none", "env", "send_email"} :
       /\ f # "none" => faults < MaxFaults
       /\ faults' = faults + (IF f = "none" THEN 0 ELSE 1)
       /\ IF f = "none"
          THEN /\ exit_status' = ExitStatus(counts)
               /\ crashed' = FALSE
               /\ trace' = trace
          ELSE \* _env (SMTP_HOST, ..., EMAIL_TO) or send_email raises: the
               \* exception leaves main()
               /\ exit_status' = 1
               /\ crashed' = TRUE
               /\ trace' = Append(trace, Event(<<0, 0>>, "raised", <<Called(f, FALSE)>>))
  /\ done_runs' = Append(done_runs, Summary(exit_status', crashed', counts, trace'))
  /\ UNCHANGED <<ever_uploaded, script, library, staging, folders, artifacts, zip_marked, run, dry_run,
                 max_zips, date_folder_cache, id_exists_cache, counts, failures, pos,
                 pending, epos, arts_at_start, temp_files>>

(***************************************************************************)
(* scripts/check_takeout_and_process.py.                                   *)
(***************************************************************************)
MaxZips == 2      \* zips in the Takeout folder
MaxEntries == 2   \* metadata entries of a zip

\* a metadata entry of a zip: the decoded favorite flag, whether a media entry
\* resolves, the decoded capture time, the sha256 of the media bytes
Entry(favorite, media, taken, sha) ==
  [favorite |-> favorite, media |-> media, taken |-> taken, sha |-> sha]

EntryPool ==
  { Entry(TRUE, TRUE, Utc(1, 3), "k1"),
    Entry(TRUE, TRUE, BadTime, "k2"),
    Entry(FALSE, TRUE, Utc(1, 3), "k2"),
    Entry(TRUE, FALSE, Utc(1, 3), "k2"),
    Entry(TRUE, TRUE, NoTime, "k2") }

Contents == UNION {SeqsOfLen(EntryPool, n) : n \in 0..MaxEntries}

\* the i-th child listed: the later ones are older
Zip(i, entries) ==
  [id |-> i, name |-> i, modifiedTime |-> (IF i = 1 THEN 2 ELSE 1), entries |-> entries]

\* the first zip listed holds any content; the others one favorite of hash k1
Stagings ==
  {<<>>} \cup
  UNION { {<<Zip(1, c)>> \o [i \in 1..(n - 1) |-> Zip(i + 1, <<Entry(TRUE, TRUE, Utc(1, 3), "k1")>>)]
             : c \in Contents} : n \in 1..MaxZips }

\* pending.sort(key=lambda x: (x.get("modifiedTime") or "", x.get("name") or ""))
KeyByNameOnly(a, b) == a.name <= b.name

KeyLessEq(a, b) ==
  \/ a.modifiedTime < b.modifiedTime
  \/ a.modifiedTime = b.modifiedTime /\ a.name <= b.name

RECURSIVE InsertZip(_, _)
InsertZip(z, sorted) ==
  IF sorted = <<>> THEN <<z>>
  ELSE IF KeyLessEq(sorted[1], z) THEN <<sorted[1]>> \o InsertZip(z, Tail(sorted))
  ELSE <<z>> \o sorted

RECURSIVE SortZips(_)
SortZips(zs) ==
  IF zs = <<>> THEN <<>> ELSE InsertZip(zs[Len(zs)], SortZips(SubSeq(zs, 1, Len(zs) - 1)))

RECURSIVE Unprocessed(_, _)
Unprocessed(zs, marked) ==
  IF zs = <<>> THEN <<>>
  ELSE (IF zs[1].id \in marked THEN <<>> ELSE <<zs[1]>>) \o Unprocessed(Tail(zs), marked)

\* pending = [not processed]; pending.sort(...); pending[: max(0, args.max_zips)]
Pending(children, marked, cap) ==
  LET sorted == SortZips(Unprocessed(children, marked))
  IN SubSeq(sorted, 1, Min(Len(sorted), IF cap < 0 THEN 0 ELSE cap))

\* `if not _parse_favorite_flag(meta): continue`
EveryEntryFavorite(entry) == TRUE

IsFavorite(entry) == entry.favorite

\* the body of `for base, jn in json_by_base.items()` in _process_zip
TakeoutBody(entry, dry, f, pick) ==
  IF ~IsFavorite(entry)
  THEN Outcome("ignored", folders, artifacts, date_folder_cache, id_exists_cache, <<>>,
               pick = 0, -1, 0, "none")
  ELSE IF ~entry.media \/ entry.taken.kind = "none"
  THEN Outcome("failed", folders, artifacts, date_folder_cache, id_exists_cache, <<>>,
               pick = 0, -1, 0, "none")
  ELSE
  LET d == IsoToKstDate(entry.taken) IN
  IF ~d.ok
  THEN \* ValueError of the fallback iso_to_kst_date, outside the inner try
       Outcome("raised", folders, artifacts, date_folder_cache, id_exists_cache, <<>>,
               pick = 0, -1, 0, "none")
  ELSE
  LET e == EnsureDateFolder(date_folder_cache, folders, Root, d.date, f, pick) IN
  IF ~e.ok
  THEN \* outside the inner try as well
       Outcome("raised", e.folders, artifacts, e.cache, id_exists_cache, e.calls,
               e.pickOk, d.date, 0, "none")
  ELSE
  LET x == e.calls \o <<Called("extract", TRUE)>>
      a == AlreadyUploaded(id_exists_cache, artifacts, "sha256", "sha256:", entry.sha, f)
  IN
  IF f = "extract"
  THEN \* z.open / the copy into the temporary file raises, inside the inner try
       Outcome("failed", e.folders, artifacts, e.cache, id_exists_cache,
               e.calls \o <<Called("extract", FALSE)>>, e.pickOk, d.date, e.id, "none")
  ELSE IF ~a.ok
  THEN Outcome("failed", e.folders, artifacts, e.cache, a.cache, x \o a.calls,
               e.pickOk, d.date, e.id, "none")
  ELSE IF SkipBranch(a.exists, dry)
  THEN Outcome("skipped", e.folders, artifacts, e.cache, a.cache, x \o a.calls,
               e.pickOk, d.date, e.id, Answer(a))
  ELSE IF f = "upload"
  THEN Outcome("failed", e.folders, artifacts, e.cache, a.cache,
               x \o a.calls \o <<Called("upload", FALSE)>>, e.pickOk, d.date, e.id, Answer(a))
  ELSE Outcome("uploaded", e.folders, UploadFile(artifacts, "sha256", entry.sha, e.id),
               e.cache, a.cache, x \o a.calls \o <<Called("upload", TRUE)>>,
               e.pickOk, d.date, e.id, Answer(a))

TakeoutReason(entry, r) ==
  IF ~entry.media THEN "media_not_found"
  ELSE IF entry.taken.kind = "none" THEN "taken_time_not_found"
  ELSE "upload_failed"

\* --max-zips: a negative value, or 1..MaxZips
Caps == {-1} \cup 1..MaxZips

\* the Takeout-ready mail: found, not found, or the IMAP session raises
Mails == {"ready", "none", "error"}

\* `triggered`: --force, or what _imap_find_takeout_ready returns
AlwaysTriggered(force, mail) == TRUE

Triggered(force, mail) == force \/ mail = "ready"

\* the entry of the history for the trigger check: what main() did and what
\* the mailbox held ("": not looked at)
Gate(outcome, mail, calls) == [Event(<<0, 0>>, outcome, calls) EXCEPT !.key = mail]

\* main() up to `if not triggered: return 0`: the SMTP settings, the trigger;
\* args.max_zips and args.dry_run are not read before the listing
TakeoutStart ==
  /\ script = "check_takeout_and_process"
  /\ \E force \in BOOLEAN, mail \in Mails, f \in {"none", "env"} :
       LET imap == IF force THEN <<>> ELSE <<Called("imap", mail # "error")>>
           fault == f # "none" \/ (~force /\ mail = "error")
           tr == IF f = "env" THEN <<Event(<<0, 0>>, "raised", <<Called("env", FALSE)>>)>>
                 ELSE IF force THEN <<Gate("forced", "", imap)>>
                 ELSE IF mail = "error" THEN <<Gate("imap_error", mail, imap)>>
                 ELSE IF Triggered(force, mail) THEN <<Gate("triggered", mail, imap)>>
                 ELSE <<Gate("not_triggered", mail, imap)>>
       IN /\ StartRun(FALSE, 0)
          /\ fault => faults < MaxFaults
          /\ faults' = faults + (IF fault THEN 1 ELSE 0)
          /\ trace' = tr
          /\ counts' = ZeroCounts
          /\ pending' = <<>>
          /\ IF f = "env"
             THEN \* _env raises RuntimeError: the exception leaves main()
                  /\ pc' = "idle"
                  /\ exit_status' = 1
                  /\ crashed' = TRUE
                  /\ done_runs' = Append(done_runs, EndedAtStart(FALSE, 1, TRUE, tr))
             ELSE IF ~force /\ mail = "error"
             THEN \* `except Exception`: return 1
                  /\ pc' = "idle"
                  /\ exit_status' = 1
                  /\ crashed' = FALSE
                  /\ done_runs' = Append(done_runs, EndedAtStart(FALSE, 1, FALSE, tr))
             ELSE IF ~Triggered(force, mail)
             THEN \* `if not triggered`: return 0
                  /\ pc' = "idle"
                  /\ exit_status' = 0
                  /\ crashed' = FALSE
                  /\ done_runs' = Append(done_runs, EndedAtStart(FALSE, 0, FALSE, tr))
             ELSE /\ pc' = "gated"
                  /\ exit_status' = -1
                  /\ crashed' = FALSE
                  /\ UNCHANGED done_runs
  /\ UNCHANGED <<ever_uploaded, script, library, staging, folders, artifacts, zip_marked>>

\* main() from the Drive settings to `pending`: the credentials, list_children
TakeoutList ==
  /\ pc = "gated"
  /\ \E dry \in BOOLEAN, zips \in Caps, f \in {"none", "env", "credentials", "list_children"} :
       /\ f # "none" => faults < MaxFaults
       /\ faults' = faults + (IF f = "none" THEN 0 ELSE 1)
       /\ IF f = "none"
          THEN /\ pending' = Pending(staging, zip_marked, zips)
               /\ dry_run' = dry
               /\ max_zips' = zips
               /\ counts' = [ZeroCounts EXCEPT !.takeout_files_seen = Len(staging)]
               /\ trace' = <<Event(<<0, 0>>, "listed", <<Called("list_children", TRUE)>>)>>
               /\ pc' = "zips"
               /\ UNCHANGED <<exit_status, crashed, done_runs>>
          ELSE \* the exception leaves main()
               /\ trace' = <<Event(<<0, 0>>, "raised", <<Called(f, FALSE)>>)>>
               /\ pc' = "idle"
               /\ exit_status' = 1
               /\ crashed' = TRUE
               /\ done_runs' = Append(done_runs, Summary(1, TRUE, counts, trace'))
               /\ UNCHANGED <<pending, counts, dry_run, max_zips>>
  /\ UNCHANGED <<ever_uploaded, script, library, staging, folders, artifacts, zip_marked, run,
                 date_folder_cache, id_exists_cache, failures, pos, epos, arts_at_start, temp_files>>

\* `continue` in the except clause of the download: the marker update of the
\* zip is not reached
MarkAfterFailure(marked, id) == marked \cup {id}

ContinueUnmarked(marked, id) == marked

\* `for f in pending`: download_file, then _process_zip opens the zip
ZipBegin ==
  /\ pc = "zips"
  /\ pos <= Len(pending)
  /\ \E f \in {"none", "zip.download"} :
       LET z == pending[pos]
           cnt == [counts EXCEPT !.takeout_files_processed = @ + 1]
       IN /\ f # "none" => faults < MaxFaults
          /\ faults' = faults + (IF f = "none" THEN 0 ELSE 1)
          /\ IF f = "none"
             THEN /\ counts' = cnt
                  /\ trace' = Append(trace, Event(<<z.id, 0>>, "opened", <<Called("zip.download", TRUE)>>))
                  /\ pc' = "entries"
                  /\ epos' = 1
                  /\ UNCHANGED <<failures, pos, zip_marked>>
             ELSE /\ counts' = [cnt EXCEPT !.failed = @ + 1]
                  /\ failures' = Append(failures, Failure("takeoutZip", z.name))
                  /\ trace' = Append(trace, Event(<<z.id, 0>>, "failed", <<Called("zip.download", FALSE)>>))
                  /\ pos' = pos + 1
                  /\ zip_marked' = ContinueUnmarked(zip_marked, z.id)
                  /\ UNCHANGED <<pc, epos>>
  /\ UNCHANGED <<ever_uploaded, script, library, staging, folders, artifacts, run, dry_run,
                 max_zips, date_folder_cache, id_exists_cache, pending, exit_status,
                 crashed, done_runs, arts_at_start, temp_files>>

\* one metadata entry of the open zip
ZipEntry ==
  /\ pc = "entries"
  /\ epos <= Len(pending[pos].entries)
  /\ \E f \in (FaultPoints \ {"download"}) \cup {"extract"}, pick \in 0..Len(folders) :
       LET z == pending[pos]
           entry == z.entries[epos]
           r == TakeoutBody(entry, dry_run, f, pick)
           found == IF IsFavorite(entry) THEN [counts EXCEPT !.favorites_found = @ + 1] ELSE counts
       IN /\ r.pickOk
          /\ FaultHit(r, f)
          /\ f # "none" => faults < MaxFaults
          /\ faults' = faults + (IF f = "none" THEN 0 ELSE 1)
          /\ folders' = r.folders
          /\ artifacts' = r.artifacts
          /\ date_folder_cache' = r.dcache
          /\ id_exists_cache' = r.ecache
          /\ trace' = Append(trace, Step(<<z.id, epos>>, "sha256", entry.sha, r))
          /\ temp_files' = TempFilesAfter(temp_files, <<z.id, epos>>, r)
          /\ ever_uploaded' =
               IF r.outcome = "uploaded"
               THEN ever_uploaded \cup {Identity("sha256", entry.sha)}
               ELSE ever_uploaded
          /\ IF r.outcome = "raised"
             THEN \* the exception leaves _process_zip; main() records the zip as failed
                  \* and goes on with the next zip
                  /\ counts' = [found EXCEPT !.failed = @ + 1]
                  /\ failures' = Append(failures, Failure("takeoutZip", z.name))
                  /\ pc' = "zips"
                  /\ pos' = pos + 1
                  /\ epos' = 0
             ELSE /\ counts' = Bump(found, r.outcome)
                  /\ failures' =
                       IF r.outcome = "failed"
                       THEN Append(failures, Failure(TakeoutReason(entry, r), entry.sha))
                       ELSE failures
                  /\ epos' = epos + 1
                  /\ UNCHANGED <<pc, pos>>
  /\ UNCHANGED <<script, library, staging, zip_marked, run, dry_run, max_zips, pending,
                 exit_status, crashed, done_runs, arts_at_start>>

\* _process_zip returned: the best-effort update of takeoutProcessed
ZipEnd ==
  /\ pc = "entries"
  /\ epos > Len(pending[pos].entries)
  /\ \E f \in {"none", "update"} :
       LET z == pending[pos]
       IN /\ f # "none" => faults < MaxFaults
          /\ faults' = faults + (IF f = "none" THEN 0 ELSE 1)
          /\ zip_marked' = IF f = "none" THEN zip_marked \cup {z.id} ELSE zip_marked
          /\ trace' = Append(trace, Event(<<z.id, 0>>, "closed", <<Called("update", f = "none")>>))
  /\ pc' = "zips"
  /\ pos' = pos + 1
  /\ epos' = 0
  /\ UNCHANGED <<ever_uploaded, script, library, staging, folders, artifacts, run, dry_run, max_zips,
                 date_folder_cache, id_exists_cache, counts, failures, pending,
                 exit_status, crashed, done_runs, arts_at_start, temp_files>>

\* after the loop: the mail, the summary, `return 1 if counts.failed else 0`
TakeoutFinish ==
  /\ pc = "zips"
  /\ pos > Len(pending)
  /\ pc' = "idle"
  /\ \E f \in {"none", "send_email"} :
       /\ f # "none" => faults < MaxFaults
       /\ faults' = faults + (IF f = "none" THEN 0 ELSE 1)
       /\ IF f = "none"
          THEN /\ exit_status' = ExitStatus(counts)
               /\ crashed' = FALSE
               /\ trace' = trace
          ELSE \* the exception leaves main()
               /\ exit_status' = 1
               /\ crashed' = TRUE
               /\ trace' = Append(trace, Event(<<0, 0>>, "raised", <<Called(f, FALSE)>>))
  /\ done_runs' = Append(done_runs, Summary(exit_status', crashed', counts, trace'))
  /\ UNCHANGED <<ever_uploaded, script, library, staging, folders, artifacts, zip_marked, run, dry_run,
                 max_zips, date_folder_cache, id_exists_cache, counts, failures, pos,
                 pending, epos, arts_at_start, temp_files>>

RunIdle ==
  /\ script = "none"
  /\ library = <<>>
  /\ staging = <<>>
  /\ folders = <<>>
  /\ artifacts = <<>>
  /\ zip_marked = {}
  /\ run = 0
  /\ pc = "off"
  /\ dry_run = FALSE
  /\ max_zips = 0
  /\ date_folder_cache = EmptyMap
  /\ id_exists_cache = EmptyMap
  /\ counts = ZeroCounts
  /\ failures = <<>>
  /\ pos = 0
  /\ pending = <<>>
  /\ epos = 0
  /\ exit_status = -1
  /\ crashed = FALSE
  /\ faults = 0
  /\ trace = <<>>
  /\ done_runs = <<>>
  /\ arts_at_start = 0
  /\ temp_files = {}
  /\ ever_uploaded = {}

Next ==
  \/ LiveStart /\ UNCHANGED <<retryVars, uploadVars, favVars, timeVars, raceVars, dlVars, srVars, lsVars>>
  \/ LiveItem /\ UNCHANGED <<retryVars, uploadVars, favVars, timeVars, raceVars, dlVars, srVars, lsVars>>
  \/ LiveFinish /\ UNCHANGED <<retryVars, uploadVars, favVars, timeVars, raceVars, dlVars, srVars, lsVars>>
  \/ TakeoutStart /\ UNCHANGED <<retryVars, uploadVars, favVars, timeVars, raceVars, dlVars, srVars, lsVars>>
  \/ TakeoutList /\ UNCHANGED <<retryVars, uploadVars, favVars, timeVars, raceVars, dlVars, srVars, lsVars>>
  \/ ZipBegin /\ UNCHANGED <<retryVars, uploadVars, favVars, timeVars, raceVars, dlVars, srVars, lsVars>>
  \/ ZipEntry /\ UNCHANGED <<retryVars, uploadVars, favVars, timeVars, raceVars, dlVars, srVars, lsVars>>
  \/ ZipEnd /\ UNCHANGED <<retryVars, uploadVars, favVars, timeVars, raceVars, dlVars, srVars, lsVars>>
  \/ TakeoutFinish /\ UNCHANGED <<retryVars, uploadVars, favVars, timeVars, raceVars, dlVars, srVars, lsVars>>

(***************************************************************************)
(* scripts/check_takeout_and_process.py: _parse_favorite_flag.             *)
(* A string is the tuple of its characters; a JSON value carries its type. *)
(***************************************************************************)
MaxKeys == 2   \* keys of a metadata dict

Bool(b) == [type |-> "bool", b |-> b, s |-> <<>>, n |-> 0]
Str(s) == [type |-> "str", b |-> FALSE, s |-> s, n |-> 0]
Num(n) == [type |-> "num", b |-> FALSE, s |-> <<>>, n |-> n]
Null == [type |-> "null", b |-> FALSE, s |-> <<>>, n |-> 0]

Strings ==
  { <<"t", "r", "u", "e">>, <<"T", "r", "u", "e">>, <<" ", "Y", "E", "S", " ">>,
    <<"1">>, <<"Y">>, <<"n", "o">>, <<"0">>, <<>> }

Values ==
  {Bool(TRUE), Bool(FALSE), Null} \cup {Str(s) : s \in Strings} \cup {Num(n) : n \in 0..2}

FavoriteKeysReversed == <<"is_favorite", "favorited", "favorite", "isFavorite">>

\* for key in ("isFavorite", "favorite", "favorited", "is_favorite")
FavoriteKeys == <<"isFavorite", "favorite", "favorited", "is_favorite">>

\* for key in ("starred", "isStarred")
StarKeys == <<"starred", "isStarred">>

Keys == {"isFavorite", "favorite", "favorited", "is_favorite", "starred", "isStarred", "title"}

Metas == UNION {[ks -> Values] : ks \in {K \in SUBSET Keys : Cardinality(K) <= MaxKeys}}

\* str.lower()
LowerChar(c) ==
  CASE c = "T" -> "t" [] c = "R" -> "r" [] c = "U" -> "u" [] c = "E" -> "e"
    [] c = "Y" -> "y" [] c = "S" -> "s" [] c = "N" -> "n" [] c = "O" -> "o"
    [] OTHER -> c

KeepCase(s) == s

Lower(s) == [i \in 1..Len(s) |-> LowerChar(s[i])]

\* str.strip()
RECURSIVE StripLeft(_)
StripLeft(s) == IF s # <<>> /\ Head(s) = " " THEN StripLeft(Tail(s)) ELSE s

RECURSIVE StripRight(_)
StripRight(s) ==
  IF s # <<>> /\ s[Len(s)] = " " THEN StripRight(SubSeq(s, 1, Len(s) - 1)) ELSE s

Strip(s) == StripRight(StripLeft(s))

\* ("true", "1", "yes", "y")
TrueForms == {<<"t", "r", "u", "e">>, <<"1">>, <<"y", "e", "s">>, <<"y">>}

\* one `for key in (...)` loop: the value returned at the first key whose value
\* is a bool or a str (or a number, in the first loop), if there is one
RECURSIVE FirstDecoded(_, _, _)
FirstDecoded(meta, keys, numbers) ==
  IF keys = <<>> THEN [found |-> FALSE, value |-> FALSE]
  ELSE IF Head(keys) \in DOMAIN meta /\ meta[Head(keys)].type = "bool"
  THEN [found |-> TRUE, value |-> meta[Head(keys)].b]
  ELSE IF Head(keys) \in DOMAIN meta /\ meta[Head(keys)].type = "str"
  THEN [found |-> TRUE, value |-> Lower(Strip(meta[Head(keys)].s)) \in TrueForms]
  ELSE IF Head(keys) \in DOMAIN meta /\ numbers /\ meta[Head(keys)].type = "num"
  THEN [found |-> TRUE, value |-> meta[Head(keys)].n # 0]
  ELSE FirstDecoded(meta, Tail(keys), numbers)

ParseFavoriteFlag(meta) ==
  LET first == FirstDecoded(meta, FavoriteKeys, TRUE)
  IN IF first.found THEN first.value ELSE FirstDecoded(meta, StarKeys, FALSE).value

FavIdle ==
  /\ fav_meta = [k \in {} |-> Null]
  /\ fav_pc = "idle"
  /\ fav_out = FALSE

\* a call of _parse_favorite_flag(meta)
ParseFavorite ==
  /\ fav_pc = "parse"
  /\ fav_out' = ParseFavoriteFlag(fav_meta)
  /\ fav_pc' = "returned"
  /\ UNCHANGED fav_meta

FavNext == ParseFavorite /\ UNCHANGED <<retryVars, uploadVars, runVars, timeVars, raceVars, dlVars, srVars, lsVars>>

(***************************************************************************)
(* scripts/check_takeout_and_process.py: _extract_taken_time_iso.          *)
(* An object of the metadata is a dict that may hold one inner field, or a *)
(* value that is not a dict.                                               *)
(***************************************************************************)
Obj(type, has, inner) == [type |-> type, has |-> has, inner |-> inner]

\* candidates = [("photoTakenTime", "timestamp"), ("creationTime", "timestamp"),
\*               ("takenTime", "timestamp")]
TimeCandidatesSwapped == <<"creationTime", "photoTakenTime", "takenTime">>

TimeCandidates == <<"photoTakenTime", "creationTime", "takenTime">>

Stamps == {Num(5), Num(60000), Str(<<"1", "2">>), Str(<<"x">>), Null}

StampObjs ==
  {Obj("str", FALSE, Null), Obj("dict", FALSE, Null)} \cup {Obj("dict", TRUE, ts) : ts \in Stamps}

IsoText == <<"2", "0", "2", "4">>   \* an RFC3339-like string, abbreviated

CreationObjs ==
  {Obj("str", FALSE, Null), Obj("dict", FALSE, Null)}
    \cup {Obj("dict", TRUE, ct) : ct \in {Str(IsoText), Str(<<>>), Num(5)}}

TimeMetas ==
  UNION {{m \in [ks -> StampObjs \cup CreationObjs] :
            \A k \in ks : m[k] \in (IF k = "mediaMetadata" THEN CreationObjs ELSE StampObjs)}
         : ks \in SUBSET {"photoTakenTime", "creationTime", "takenTime", "mediaMetadata"}}

DigitVal(c) ==
  CASE c = "0" -> 0 [] c = "1" -> 1 [] c = "2" -> 2 [] c = "3" -> 3 [] c = "4" -> 4
    [] c = "5" -> 5 [] c = "6" -> 6 [] c = "7" -> 7 [] c = "8" -> 8 [] c = "9" -> 9
    [] OTHER -> -1

RECURSIVE ParseDigits(_)
ParseDigits(s) ==
  IF s = <<>> THEN 0
  ELSE ParseDigits(SubSeq(s, 1, Len(s) - 1)) * 10 + DigitVal(s[Len(s)])

\* int(ts): a number or a bool converts, a string converts when it is a run of
\* digits (blanks around it ignored), anything else raises
IntOf(v) ==
  IF v.type = "num" THEN [ok |-> TRUE, n |-> v.n]
  ELSE IF v.type = "bool" THEN [ok |-> TRUE, n |-> IF v.b THEN 1 ELSE 0]
  ELSE IF /\ v.type = "str"
          /\ Strip(v.s) # <<>>
          /\ \A i \in 1..Len(Strip(v.s)) : DigitVal(Strip(v.s)[i]) >= 0
  THEN [ok |-> TRUE, n |-> ParseDigits(Strip(v.s))]
  ELSE [ok |-> FALSE, n |-> 0]

KstOffset == 32400   \* seconds east of UTC

NoTakenTime == [kind |-> "none", day |-> 0, sec |-> 0, text |-> <<>>]

\* datetime.fromtimestamp(ts_int, tz=KST).astimezone(KST).isoformat()
IsoOfEpoch(n) ==
  [kind |-> "iso", day |-> (n + KstOffset) \div 86400,
   sec |-> (n + KstOffset) % 86400, text |-> <<>>]

TextTime(s) == [kind |-> "text", day |-> 0, sec |-> 0, text |-> s]

\* the for loop: the first candidate that is a dict holding a timestamp that
\* converts
RECURSIVE FirstStamp(_, _)
FirstStamp(meta, cands) ==
  IF cands = <<>> THEN NoTakenTime
  ELSE IF /\ Head(cands) \in DOMAIN meta
          /\ meta[Head(cands)].type = "dict"
          /\ meta[Head(cands)].has
          /\ IntOf(meta[Head(cands)].inner).ok
  THEN IsoOfEpoch(IntOf(meta[Head(cands)].inner).n)
  ELSE FirstStamp(meta, Tail(cands))

\* ct = meta.get("mediaMetadata", {}).get("creationTime") if ... else None
NestedCreationTime(meta) ==
  IF /\ "mediaMetadata" \in DOMAIN meta
     /\ meta["mediaMetadata"].type = "dict"
     /\ meta["mediaMetadata"].has
  THEN meta["mediaMetadata"].inner
  ELSE Null

ExtractTakenTimeIso(meta) ==
  IF FirstStamp(meta, TimeCandidates) # NoTakenTime THEN FirstStamp(meta, TimeCandidates)
  ELSE IF NestedCreationTime(meta).type = "str" /\ NestedCreationTime(meta).s # <<>>
  THEN TextTime(NestedCreationTime(meta).s)
  ELSE NoTakenTime

TimeIdle ==
  /\ time_meta = [k \in {} |-> Null]
  /\ time_pc = "idle"
  /\ time_out = NoTakenTime

\* a call of _extract_taken_time_iso(meta)
ExtractTakenTime ==
  /\ time_pc = "extract"
  /\ time_out' = ExtractTakenTimeIso(time_meta)
  /\ time_pc' = "returned"
  /\ UNCHANGED time_meta

TimeNext == ExtractTakenTime /\ UNCHANGED <<retryVars, uploadVars, runVars, favVars, raceVars, dlVars, srVars, lsVars>>

(***************************************************************************)
(* Two overlapping runs of backup_favorites.py, one item each, against one *)
(* store: every remote call of the loop body is a step of its own, and     *)
(* each run has its own DriveClient (its own caches).                      *)
(***************************************************************************)
Procs == {1, 2}

RaceItems ==
  {Item("k1", TRUE, Utc(1, 3), "image/jpeg"), Item("k2", TRUE, Utc(1, 20), "video/mp4")}

RaceStores ==
  { [folders |-> <<>>, artifacts |-> <<>>],
    [folders |-> <<Folder(1, FALSE)>>, artifacts |-> <<Artifact("mediaItemId", "k2", 1, FALSE)>>] }

\* a run at the top of the loop body with its item
RaceProc(item, dry) ==
  [pc |-> "ensure", item |-> item, dry |-> dry, dcache |-> EmptyMap, ecache |-> EmptyMap,
   folder |-> 0, exists |-> "none", outcome |-> "none"]

RaceIdle ==
  /\ race_folders = <<>>
  /\ race_artifacts = <<>>
  /\ race_proc = [p \in Procs |-> [RaceProc(Item("", FALSE, NoTime, ""), FALSE) EXCEPT !.pc = "off"]]

RaceLabel(p) == IsoToKstDate(race_proc[p].item.creationTime).date

\* ensure_date_folder up to the answer of files().list
RaceEnsureList(p) ==
  /\ race_proc[p].pc = "ensure"
  /\ LET files == MatchingFolders(race_folders, Root, RaceLabel(p))
     IN IF files = {}
        THEN race_proc' = [race_proc EXCEPT ![p].pc = "create"]
        ELSE \E pick \in files :
               race_proc' = [race_proc EXCEPT
                               ![p].pc = "exists",
                               ![p].folder = pick,
                               ![p].dcache = StoreDateFolder(@, <<Root, RaceLabel(p)>>, pick)]
  /\ UNCHANGED <<race_folders, race_artifacts>>

\* ensure_date_folder: files().create after an empty listing
RaceEnsureCreate(p) ==
  /\ race_proc[p].pc = "create"
  /\ race_folders' = Append(race_folders, Folder(RaceLabel(p), FALSE))
  /\ race_proc' = [race_proc EXCEPT
                     ![p].pc = "exists",
                     ![p].folder = Len(race_folders) + 1,
                     ![p].dcache = StoreDateFolder(@, <<Root, RaceLabel(p)>>, Len(race_folders) + 1)]
  /\ UNCHANGED race_artifacts

\* `if drive.already_uploaded(...)` and `if args.dry_run`
RaceExists(p) ==
  /\ race_proc[p].pc = "exists"
  /\ LET a == AlreadyUploaded(race_proc[p].ecache, race_artifacts, "mediaItemId", "",
                              race_proc[p].item.id, "none")
     IN race_proc' = [race_proc EXCEPT
                        ![p].ecache = a.cache,
                        ![p].exists = Answer(a),
                        ![p].pc = IF SkipBranch(a.exists, race_proc[p].dry) THEN "done" ELSE "download",
                        ![p].outcome = IF SkipBranch(a.exists, race_proc[p].dry) THEN "skipped" ELSE "none"]
  /\ UNCHANGED <<race_folders, race_artifacts>>

\* download_to_path
RaceDownload(p) ==
  /\ race_proc[p].pc = "download"
  /\ race_proc' = [race_proc EXCEPT ![p].pc = "upload"]
  /\ UNCHANGED <<race_folders, race_artifacts>>

\* drive.upload_file, counts.uploaded += 1
RaceUpload(p) ==
  /\ race_proc[p].pc = "upload"
  /\ race_artifacts' = UploadFile(race_artifacts, "mediaItemId", race_proc[p].item.id,
                                  race_proc[p].folder)
  /\ race_proc' = [race_proc EXCEPT ![p].pc = "done", ![p].outcome = "uploaded"]
  /\ UNCHANGED race_folders

RaceNext ==
  \/ (\E p \in Procs : RaceEnsureList(p)) /\ UNCHANGED <<retryVars, uploadVars, runVars, favVars, timeVars, dlVars, srVars, lsVars>>
  \/ (\E p \in Procs : RaceEnsureCreate(p)) /\ UNCHANGED <<retryVars, uploadVars, runVars, favVars, timeVars, dlVars, srVars, lsVars>>
  \/ (\E p \in Procs : RaceExists(p)) /\ UNCHANGED <<retryVars, uploadVars, runVars, favVars, timeVars, dlVars, srVars, lsVars>>
  \/ (\E p \in Procs : RaceDownload(p)) /\ UNCHANGED <<retryVars, uploadVars, runVars, favVars, timeVars, dlVars, srVars, lsVars>>
  \/ (\E p \in Procs : RaceUpload(p)) /\ UNCHANGED <<retryVars, uploadVars, runVars, favVars, timeVars, dlVars, srVars, lsVars>>

(***************************************************************************)
(* DriveClient.download_file and utils.download_to_path: _once() under the *)
(* retry executor, one write per step.  The remote content is the chunks   *)
(* 1..dl_size; dl_dest is what the destination file holds.                 *)
(***************************************************************************)
MaxDlChunks == 3   \* chunks of a remote content

DlExecutor(fn) == IF fn = "download_to_path" THEN "with_retries" ELSE "_execute_with_retries"

\* open(path, "wb")
OpenAppending(dest) == dest

OpenWb(dest) == <<>>

DlIdle ==
  /\ dl_fn = "idle"
  /\ dl_policy = RetryPolicy(0)
  /\ dl_size = 0
  /\ dl_dest = <<>>
  /\ dl_offset = 0
  /\ dl_attempt = 0
  /\ dl_pc = "idle"
  /\ dl_out = None
  /\ dl_wasted = 0

\* _once() up to the opened file: a new GET (download_to_path) or a new
\* MediaIoBaseDownload (download_file) starts at the first byte
DlOpen ==
  /\ dl_pc = "call"
  /\ dl_dest' = OpenWb(dl_dest)
  /\ dl_offset' = 0
  /\ dl_pc' = "stream"
  /\ UNCHANGED <<dl_fn, dl_policy, dl_size, dl_attempt, dl_out, dl_wasted>>

\* f.write(chunk) / downloader.next_chunk()
DlChunk ==
  /\ dl_pc = "stream"
  /\ dl_offset < dl_size
  /\ dl_dest' = Append(dl_dest, dl_offset + 1)
  /\ dl_offset' = dl_offset + 1
  /\ UNCHANGED <<dl_fn, dl_policy, dl_size, dl_attempt, dl_pc, dl_out, dl_wasted>>

\* the content is exhausted: _once() returns, and so does the executor
DlReturn ==
  /\ dl_pc = "stream"
  /\ dl_offset = dl_size
  /\ dl_pc' = "done"
  /\ dl_out' = Err("ok", dl_attempt + 1)
  /\ UNCHANGED <<dl_fn, dl_policy, dl_size, dl_dest, dl_offset, dl_attempt, dl_wasted>>

\* _once() raises a class of the except clause and attempts remain
DlRetry ==
  /\ dl_pc \in {"call", "stream"}
  /\ \E cls \in ErrClasses :
       /\ IsRetryable(DlExecutor(dl_fn), cls)
       /\ ~Exhausted(dl_attempt, dl_policy)
  /\ dl_attempt' = dl_attempt + 1
  /\ dl_pc' = "call"
  /\ dl_wasted' = dl_wasted + (IF dl_pc = "stream" THEN Len(dl_dest) ELSE 0)
  /\ UNCHANGED <<dl_fn, dl_policy, dl_size, dl_dest, dl_offset, dl_out>>

\* it raises such a class at the last attempt: raise last_err
DlExhausted ==
  /\ dl_pc \in {"call", "stream"}
  /\ \E cls \in ErrClasses :
       /\ IsRetryable(DlExecutor(dl_fn), cls)
       /\ Exhausted(dl_attempt, dl_policy)
       /\ dl_out' = Err(cls, dl_attempt + 1)
  /\ dl_pc' = "failed"
  /\ UNCHANGED <<dl_fn, dl_policy, dl_size, dl_dest, dl_offset, dl_attempt, dl_wasted>>

\* it raises another class: the exception leaves the executor
DlPropagate ==
  /\ dl_pc \in {"call", "stream"}
  /\ \E cls \in ErrClasses :
       /\ ~IsRetryable(DlExecutor(dl_fn), cls)
       /\ dl_out' = Err(cls, dl_attempt + 1)
  /\ dl_pc' = "propagated"
  /\ UNCHANGED <<dl_fn, dl_policy, dl_size, dl_dest, dl_offset, dl_attempt, dl_wasted>>

DlNext ==
  \/ DlOpen /\ UNCHANGED <<retryVars, uploadVars, runVars, favVars, timeVars, raceVars, srVars, lsVars>>
  \/ DlChunk /\ UNCHANGED <<retryVars, uploadVars, runVars, favVars, timeVars, raceVars, srVars, lsVars>>
  \/ DlReturn /\ UNCHANGED <<retryVars, uploadVars, runVars, favVars, timeVars, raceVars, srVars, lsVars>>
  \/ DlRetry /\ UNCHANGED <<retryVars, uploadVars, runVars, favVars, timeVars, raceVars, srVars, lsVars>>
  \/ DlExhausted /\ UNCHANGED <<retryVars, uploadVars, runVars, favVars, timeVars, raceVars, srVars, lsVars>>
  \/ DlPropagate /\ UNCHANGED <<retryVars, uploadVars, runVars, favVars, timeVars, raceVars, srVars, lsVars>>

(***************************************************************************)
(* PhotosClient.search_favorites_by_date_range: the generator, one fetch   *)
(* attempt or one yield per step.  The remote holds a chain of pages; page *)
(* k carries the items <<k, 1>>, <<k, 2>>, ... and the token of page k + 1.*)
(***************************************************************************)
MaxPages == 3       \* pages of a search
MaxPageItems == 2   \* items of a page

NoToken == "None"

TokenOf(k) == IF k = 1 THEN "t1" ELSE IF k = 2 THEN "t2" ELSE IF k = 3 THEN "t3" ELSE "t4"

Page(k, size, token) == [items |-> [j \in 1..size |-> <<k, j>>], token |-> token]

\* the chains of n pages: every page but the last names its successor, the
\* last one has no nextPageToken or an empty one
Chains ==
  UNION {{[k \in 1..n |-> Page(k, sizes[k], IF k < n THEN TokenOf(k) ELSE last)] :
            sizes \in [1..n -> 0..MaxPageItems], last \in {NoToken, ""}}
         : n \in 1..MaxPages}

\* the page the remote answers with for a pageToken
RemotePage(pages, token) ==
  IF token = NoToken THEN 1
  ELSE 1 + CHOOSE k \in 1..Len(pages) : pages[k].token = token

\* page_token = result.next_page_token
FirstPageAgain(token) == NoToken

NextPageToken(token) == token

\* `if not result.next_page_token`
Falsy(token) == token \in {NoToken, ""}

Fetch(token, at, outcome) == [token |-> token, at |-> at, outcome |-> outcome]

SearchIdle ==
  /\ sr_pages = <<>>
  /\ sr_policy = RetryPolicy(0)
  /\ sr_token = NoToken
  /\ sr_result = Page(0, 0, NoToken)
  /\ sr_pos = 0
  /\ sr_attempt = 0
  /\ sr_pc = "idle"
  /\ sr_yielded = <<>>
  /\ sr_log = <<>>

\* _search_once: _once() returns the page
SearchFetch ==
  /\ sr_pc = "fetch"
  /\ sr_result' = sr_pages[RemotePage(sr_pages, sr_token)]
  /\ sr_pos' = 1
  /\ sr_attempt' = 0
  /\ sr_pc' = "yield"
  /\ sr_log' = Append(sr_log, Fetch(sr_token, Len(sr_yielded), "ok"))
  /\ UNCHANGED <<sr_pages, sr_policy, sr_token, sr_yielded>>

\* _once() raises a RequestException and attempts remain
SearchRetry ==
  /\ sr_pc = "fetch"
  /\ \E cls \in ErrClasses :
       /\ IsRetryable("with_retries", cls)
       /\ ~Exhausted(sr_attempt, sr_policy)
       /\ sr_log' = Append(sr_log, Fetch(sr_token, Len(sr_yielded), cls))
  /\ sr_attempt' = sr_attempt + 1
  /\ UNCHANGED <<sr_pages, sr_policy, sr_token, sr_result, sr_pos, sr_pc, sr_yielded>>

\* it raises one at the last attempt: the error leaves the generator
SearchExhausted ==
  /\ sr_pc = "fetch"
  /\ \E cls \in ErrClasses :
       /\ IsRetryable("with_retries", cls)
       /\ Exhausted(sr_attempt, sr_policy)
       /\ sr_log' = Append(sr_log, Fetch(sr_token, Len(sr_yielded), cls))
  /\ sr_pc' = "raised"
  /\ UNCHANGED <<sr_pages, sr_policy, sr_token, sr_result, sr_pos, sr_attempt, sr_yielded>>

\* it raises another class
SearchPropagate ==
  /\ sr_pc = "fetch"
  /\ \E cls \in ErrClasses :
       /\ ~IsRetryable("with_retries", cls)
       /\ sr_log' = Append(sr_log, Fetch(sr_token, Len(sr_yielded), cls))
  /\ sr_pc' = "raised"
  /\ UNCHANGED <<sr_pages, sr_policy, sr_token, sr_result, sr_pos, sr_attempt, sr_yielded>>

\* `for item in result.media_items: yield item`
SearchYield ==
  /\ sr_pc = "yield"
  /\ sr_pos <= Len(sr_result.items)
  /\ sr_yielded' = Append(sr_yielded, sr_result.items[sr_pos])
  /\ sr_pos' = sr_pos + 1
  /\ UNCHANGED <<sr_pages, sr_policy, sr_token, sr_result, sr_attempt, sr_pc, sr_log>>

\* `if not result.next_page_token: break`
SearchStop ==
  /\ sr_pc = "yield"
  /\ sr_pos > Len(sr_result.items)
  /\ Falsy(sr_result.token)
  /\ sr_pc' = "ended"
  /\ UNCHANGED <<sr_pages, sr_policy, sr_token, sr_result, sr_pos, sr_attempt, sr_yielded,
                 sr_log>>

\* `page_token = result.next_page_token`, back to the top of `while True`
SearchAdvance ==
  /\ sr_pc = "yield"
  /\ sr_pos > Len(sr_result.items)
  /\ ~Falsy(sr_result.token)
  /\ sr_token' = NextPageToken(sr_result.token)
  /\ sr_pc' = "fetch"
  /\ UNCHANGED <<sr_pages, sr_policy, sr_result, sr_pos, sr_attempt, sr_yielded, sr_log>>

SearchNext ==
  \/ SearchFetch /\ UNCHANGED <<retryVars, uploadVars, runVars, favVars, timeVars, raceVars, dlVars, lsVars>>
  \/ SearchRetry /\ UNCHANGED <<retryVars, uploadVars, runVars, favVars, timeVars, raceVars, dlVars, lsVars>>
  \/ SearchExhausted /\ UNCHANGED <<retryVars, uploadVars, runVars, favVars, timeVars, raceVars, dlVars, lsVars>>
  \/ SearchPropagate /\ UNCHANGED <<retryVars, uploadVars, runVars, favVars, timeVars, raceVars, dlVars, lsVars>>
  \/ SearchYield /\ UNCHANGED <<retryVars, uploadVars, runVars, favVars, timeVars, raceVars, dlVars, lsVars>>
  \/ SearchStop /\ UNCHANGED <<retryVars, uploadVars, runVars, favVars, timeVars, raceVars, dlVars, lsVars>>
  \/ SearchAdvance /\ UNCHANGED <<retryVars, uploadVars, runVars, favVars, timeVars, raceVars, dlVars, lsVars>>

(***************************************************************************)
(* DriveClient.list_children: one request or one loop test per step.  The  *)
(* remote answers the first request with page 1 and a request carrying the *)
(* token TokenOf(j) with page j; a page may name any page as its successor,*)
(* itself or an earlier one included.                                      *)
(***************************************************************************)
MaxListRequests == 5   \* requests of one call

Listings ==
  UNION {{[k \in 1..n |-> Page(k, sizes[k], tokens[k])] :
            sizes \in [1..n -> 0..MaxPageItems],
            tokens \in [1..n -> {NoToken, ""} \cup {TokenOf(j) : j \in 1..n}]}
         : n \in 1..MaxPages}

\* the page the remote answers with for a pageToken
ListedPage(pages, token) ==
  IF token = NoToken THEN 1
  ELSE CHOOSE j \in 1..Len(pages) : TokenOf(j) = token

NoReturn == <<"no value">>

\* out.extend(resp.get("files", []) or [])
KeepLastPage(out, files) == files

Extend(out, files) == out \o files

ListIdle ==
  /\ ls_pages = <<>>
  /\ ls_token = NoToken
  /\ ls_out = <<>>
  /\ ls_pc = "idle"
  /\ ls_ret = NoReturn
  /\ ls_log = <<>>

\* files().list(pageToken=page_token).execute() answers; out.extend;
\* page_token = resp.get("nextPageToken")
ListRequest ==
  /\ ls_pc = "request"
  /\ Len(ls_log) < MaxListRequests
  /\ LET k == ListedPage(ls_pages, ls_token)
     IN  /\ ls_log' = Append(ls_log, [token |-> ls_token, page |-> k, outcome |-> "ok"])
         /\ ls_out' = Extend(ls_out, ls_pages[k].items)
         /\ ls_token' = ls_pages[k].token
  /\ ls_pc' = "test"
  /\ UNCHANGED <<ls_pages, ls_ret>>

\* execute() raises: nothing catches it
ListFail ==
  /\ ls_pc = "request"
  /\ Len(ls_log) < MaxListRequests
  /\ \E cls \in ErrClasses :
       ls_log' = Append(ls_log, [token |-> ls_token, page |-> 0, outcome |-> cls])
  /\ ls_pc' = "raised"
  /\ UNCHANGED <<ls_pages, ls_token, ls_out, ls_ret>>

\* `if not page_token: break`, `return out`
ListBreak ==
  /\ ls_pc = "test"
  /\ Falsy(ls_token)
  /\ ls_ret' = ls_out
  /\ ls_pc' = "returned"
  /\ UNCHANGED <<ls_pages, ls_token, ls_out, ls_log>>

\* back to the top of `while True`
ListLoop ==
  /\ ls_pc = "test"
  /\ ~Falsy(ls_token)
  /\ ls_pc' = "request"
  /\ UNCHANGED <<ls_pages, ls_token, ls_out, ls_ret, ls_log>>

ListNext ==
  \/ ListRequest /\ UNCHANGED <<retryVars, uploadVars, runVars, favVars, timeVars, raceVars, dlVars, srVars>>
  \/ ListFail /\ UNCHANGED <<retryVars, uploadVars, runVars, favVars, timeVars, raceVars, dlVars, srVars>>
  \/ ListBreak /\ UNCHANGED <<retryVars, uploadVars, runVars, favVars, timeVars, raceVars, dlVars, srVars>>
  \/ ListLoop /\ UNCHANGED <<retryVars, uploadVars, runVars, favVars, timeVars, raceVars, dlVars, srVars>>

(***************************************************************************)
(* Specifications.                                                         *)
(***************************************************************************)
Init ==
  /\ \/ /\ script = "backup_favorites"
        /\ library \in Libraries
        /\ staging = <<>>
        /\ \E s \in InitStores("mediaItemId", "sha256") :
             folders = s.folders /\ artifacts = s.artifacts
     \/ /\ script = "check_takeout_and_process"
        /\ library = <<>>
        /\ staging \in Stagings
        /\ \E s \in InitStores("sha256", "mediaItemId") :
             folders = s.folders /\ artifacts = s.artifacts
  /\ zip_marked = {}
  /\ run = 0
  /\ pc = "idle"
  /\ dry_run = FALSE
  /\ max_zips = 0
  /\ date_folder_cache = EmptyMap
  /\ id_exists_cache = EmptyMap
  /\ counts = ZeroCounts
  /\ failures = <<>>
  /\ pos = 0
  /\ pending = <<>>
  /\ epos = 0
  /\ exit_status = -1
  /\ crashed = FALSE
  /\ faults = 0
  /\ trace = <<>>
  /\ done_runs = <<>>
  /\ arts_at_start = 0
  /\ temp_files = {}
  /\ ever_uploaded =
       {Identity(artifacts[i].prop, artifacts[i].value) :
          i \in {j \in 1..Len(artifacts) : ~artifacts[j].trashed}}
  /\ RetryIdle
  /\ UploadIdle
  /\ FavIdle
  /\ TimeIdle
  /\ RaceIdle
  /\ DlIdle
  /\ SearchIdle
  /\ ListIdle

InitRetry ==
  /\ retry_exec \in {"with_retries", "_execute_with_retries"}
  /\ retry_policy \in Policies
  /\ retry_script \in SeqsOfLen(Outcomes, ScriptLen)
  /\ retry_attempt = 0
  /\ retry_calls = 0
  /\ retry_sleeps = <<>>
  /\ retry_last_err = None
  /\ retry_pc = "loop"
  /\ retry_out = None
  /\ UploadIdle
  /\ RunIdle
  /\ FavIdle
  /\ TimeIdle
  /\ RaceIdle
  /\ DlIdle
  /\ SearchIdle
  /\ ListIdle

InitUpload ==
  /\ upload_policy \in Policies
  /\ upload_chunks \in 1..MaxChunks
  /\ upload_attempt = 0
  /\ upload_offset = 0
  /\ upload_log = <<>>
  /\ upload_sleeps = <<>>
  /\ upload_last_err = None
  /\ upload_pc = "chunks"
  /\ upload_out = None
  /\ RetryIdle
  /\ RunIdle
  /\ FavIdle
  /\ TimeIdle
  /\ RaceIdle
  /\ DlIdle
  /\ SearchIdle
  /\ ListIdle

Spec == Init /\ [][Next]_vars

SpecRetry == InitRetry /\ [][RetryNext]_vars

InitFavorite ==
  /\ fav_meta \in Metas
  /\ fav_pc = "parse"
  /\ fav_out = FALSE
  /\ RetryIdle
  /\ UploadIdle
  /\ RunIdle
  /\ TimeIdle
  /\ RaceIdle
  /\ DlIdle
  /\ SearchIdle
  /\ ListIdle

SpecFavorite == InitFavorite /\ [][FavNext]_vars

InitTakenTime ==
  /\ time_meta \in TimeMetas
  /\ time_pc = "extract"
  /\ time_out = NoTakenTime
  /\ RetryIdle
  /\ UploadIdle
  /\ RunIdle
  /\ FavIdle
  /\ RaceIdle
  /\ DlIdle
  /\ SearchIdle
  /\ ListIdle

SpecTakenTime == InitTakenTime /\ [][TimeNext]_vars

InitRace ==
  /\ \E store \in RaceStores :
       /\ race_folders = store.folders
       /\ race_artifacts = store.artifacts
  /\ race_proc \in [Procs -> {RaceProc(item, dry) : item \in RaceItems, dry \in BOOLEAN}]
  /\ RetryIdle
  /\ UploadIdle
  /\ RunIdle
  /\ FavIdle
  /\ TimeIdle
  /\ DlIdle
  /\ SearchIdle
  /\ ListIdle

SpecRace == InitRace /\ [][RaceNext]_vars

InitDownload ==
  /\ dl_fn \in {"download_file", "download_to_path"}
  /\ dl_policy \in Policies
  /\ dl_size \in 0..MaxDlChunks
  /\ dl_dest = <<>>
  /\ dl_offset = 0
  /\ dl_attempt = 0
  /\ dl_pc = "call"
  /\ dl_out = None
  /\ dl_wasted = 0
  /\ RetryIdle
  /\ UploadIdle
  /\ RunIdle
  /\ FavIdle
  /\ TimeIdle
  /\ RaceIdle
  /\ SearchIdle
  /\ ListIdle

SpecDownload == InitDownload /\ [][DlNext]_vars

InitSearch ==
  /\ sr_pages \in Chains
  /\ sr_policy \in Policies
  /\ sr_token = NoToken
  /\ sr_result = Page(0, 0, NoToken)
  /\ sr_pos = 0
  /\ sr_attempt = 0
  /\ sr_pc = "fetch"
  /\ sr_yielded = <<>>
  /\ sr_log = <<>>
  /\ RetryIdle
  /\ UploadIdle
  /\ RunIdle
  /\ FavIdle
  /\ TimeIdle
  /\ RaceIdle
  /\ DlIdle
  /\ ListIdle

SpecSearch == InitSearch /\ [][SearchNext]_vars

InitList ==
  /\ ls_pages \in Listings
  /\ ls_token = NoToken
  /\ ls_out = <<>>
  /\ ls_pc = "request"
  /\ ls_ret = NoReturn
  /\ ls_log = <<>>
  /\ RetryIdle
  /\ UploadIdle
  /\ RunIdle
  /\ FavIdle
  /\ TimeIdle
  /\ RaceIdle
  /\ DlIdle
  /\ SearchIdle

\* the loop of list_children runs on until it returns or raises
SpecList == InitList /\ [][ListNext]_vars /\ WF_vars(ListNext)

SpecUpload == InitUpload /\ [][UploadNext]_vars

\* upload_file runs to its end: no step of the loop waits for anything but
\* the blocking call it makes.
SpecUploadFair == SpecUpload /\ WF_vars(UploadNext)

(***************************************************************************)
(* Properties of the retry executor (SpecRetry).                           *)
(***************************************************************************)
\* The classes the except clause of `exec` does not catch, written out.
NotCaughtBy(exec, cls) ==
  \/ exec = "with_retries" /\ cls \in {"HttpError", "ValueError"}
  \/ exec # "with_retries" /\ cls = "ValueError"

CaughtBy(exec, cls) == cls \in ErrClasses /\ ~NotCaughtBy(exec, cls)

\* fn raises a retryable error on its first k invocations
FailsFirst(k) == \A i \in 1..k : CaughtBy(retry_exec, retry_script[i])

RetryEnded == retry_pc \in {"returned", "raised"}

\* C4: k <= max_retries retryable failures followed by a success: the executor
\* returns the success value after exactly k+1 invocations and k backoff sleeps.
C4_SuccessAfterRetries ==
  \A k \in 0..retry_policy.max_retries :
    (FailsFirst(k) /\ retry_script[k + 1] = "ok") =>
      /\ retry_calls <= k + 1
      /\ Len(retry_sleeps) <= k
      /\ ~RetryEnded => ENABLED RetryNext
      /\ RetryEnded =>
           /\ retry_pc = "returned"
           /\ retry_out = Err("ok", k + 1)
           /\ retry_calls = k + 1
           /\ Len(retry_sleeps) = k

C4_Witness ==
  /\ retry_pc = "returned"
  /\ retry_policy.max_retries = MaxPolicyRetries
  /\ retry_calls = MaxPolicyRetries + 1
  /\ Len(retry_sleeps) = MaxPolicyRetries

\* C5: more than max_retries consecutive retryable failures: exactly
\* max_retries+1 invocations, exactly max_retries sleeps (none after the last
\* attempt), and the error raised is the one of the last attempt.
C5_ExhaustionRaisesLast ==
  FailsFirst(retry_policy.max_retries + 1) =>
    /\ retry_calls <= retry_policy.max_retries + 1
    /\ Len(retry_sleeps) <= retry_policy.max_retries
    /\ ~RetryEnded => ENABLED RetryNext
    /\ RetryEnded =>
         /\ retry_pc = "raised"
         /\ retry_calls = retry_policy.max_retries + 1
         /\ Len(retry_sleeps) = retry_policy.max_retries
         /\ retry_out = Err(retry_script[retry_calls], retry_calls)

C5_Witness ==
  /\ retry_pc = "raised"
  /\ retry_policy.max_retries = MaxPolicyRetries
  /\ FailsFirst(MaxPolicyRetries + 1)
  /\ retry_script[1] # retry_script[MaxPolicyRetries + 1]
  /\ Len(retry_sleeps) = MaxPolicyRetries

\* C6: an error the except clause does not catch is raised at once, whatever the
\* attempt it occurs at: it is the last invocation, no sleep follows it (the
\* sleeps are those of the retryable failures before it), and it is the error
\* the caller gets.
C6_NonRetryableImmediate ==
  \A i \in 1..retry_calls :
    NotCaughtBy(retry_exec, retry_script[i]) =>
      /\ retry_calls = i
      /\ retry_pc = "raised"
      /\ retry_out = Err(retry_script[i], i)
      /\ Len(retry_sleeps) = i - 1
      /\ ~ENABLED RetryNext

C6_Witness ==
  /\ retry_pc = "raised"
  /\ retry_calls = 2
  /\ NotCaughtBy(retry_exec, retry_script[2])
  /\ retry_policy.max_retries >= 2
  /\ Len(retry_sleeps) = 1

(***************************************************************************)
(* Properties of the resumable upload (SpecUpload, SpecUploadFair).        *)
(***************************************************************************)
UploadEnded == upload_pc \in {"done", "failed", "propagated"}

\* the next_chunk() calls that raised one of HttpError, socket.timeout, OSError
TransientCalls ==
  {i \in 1..Len(upload_log) : upload_log[i].outcome \in {"HttpError", "RequestException"}}

FatalCalls == {i \in 1..Len(upload_log) : upload_log[i].outcome = "ValueError"}

SentChunks == [i \in 1..Len(upload_log) |-> upload_log[i].chunk]

ResumesAtFailedChunk ==
  \A i \in 1..(Len(upload_log) - 1) :
    /\ upload_log[i].outcome # "ok" => upload_log[i + 1].chunk = upload_log[i].chunk
    /\ upload_log[i].outcome = "ok" => upload_log[i + 1].chunk = upload_log[i].chunk + 1

DoneWithinBudget ==
  (UploadEnded /\ Cardinality(TransientCalls) <= upload_policy.max_retries /\ FatalCalls = {}) =>
    /\ upload_pc = "done"
    /\ upload_out.cls = "ok"
    /\ upload_offset = upload_chunks

FiveChunkScenario ==
  (upload_chunks = 5 /\ UploadEnded /\ FatalCalls = {} /\ upload_policy.max_retries >= 1
     /\ TransientCalls = {3}) =>
    /\ upload_pc = "done"
    /\ SentChunks = <<0, 1, 2, 2, 3, 4>>
    /\ upload_attempt = 1

\* C7: a resumable upload never loses progress: the acknowledged offset never
\* decreases, the call after a transient error sends the chunk that failed, with
\* at most max_retries transient errors the upload ends in Done with the
\* artifact id, and upload_file always ends; 5 chunks with one transient error
\* at chunk 2 send 0,1,2,2,3,4.
C7_ResumableKeepsProgress ==
  /\ [][upload_offset' >= upload_offset]_vars
  /\ [](ResumesAtFailedChunk /\ DoneWithinBudget /\ FiveChunkScenario)
  /\ <>UploadEnded

C7_Witness ==
  /\ upload_chunks = 5
  /\ upload_pc = "done"
  /\ TransientCalls = {3}
  /\ SentChunks = <<0, 1, 2, 2, 3, 4>>

(***************************************************************************)
(* Properties of the two scripts (Spec).                                   *)
(***************************************************************************)
\* the steps of a history that handle a candidate (an item, a metadata entry)
Steps(tr) == {i \in 1..Len(tr) : tr[i].cand[2] > 0}

Ops(s) == {s.calls[k].op : k \in 1..Len(s.calls)}

HasCall(s, op, ok) == \E k \in 1..Len(s.calls) : s.calls[k] = Called(op, ok)

OwnProp == IF script = "backup_favorites" THEN "mediaItemId" ELSE "sha256"

\* the identity had a non-trashed artifact when the current run started
ExistedAtStart(key) ==
  \E j \in 1..arts_at_start :
    /\ artifacts[j].prop = OwnProp
    /\ artifacts[j].value = key
    /\ ~artifacts[j].trashed

\* the artifacts the current run created
NewArtifacts == {j \in (arts_at_start + 1)..Len(artifacts) : artifacts[j].prop = OwnProp}

\* the runs that ended before the current one started
EarlierRuns == {r \in 1..Len(done_runs) : done_runs[r].run < run}

\* every run so far, the one that is under way included
Runs ==
  IF pc = "idle" THEN done_runs
  ELSE Append(done_runs, Summary(exit_status, crashed, counts, trace))

\* the earlier run r uploaded the entry u of a zip whose marker update failed
UploadedUnmarked(r, u) ==
  LET tr == done_runs[r].trace
  IN /\ u \in Steps(tr)
     /\ tr[u].outcome = "uploaded"
     /\ \E c \in 1..Len(tr) :
          /\ tr[c].cand = <<tr[u].cand[1], 0>>
          /\ tr[c].outcome = "closed"
          /\ HasCall(tr[c], "update", FALSE)

\* the step made the existence check of its candidate (it may have raised)
Checked(s) == Ops(s) \cap {"exists.list", "exists.cache"} # {}

\* C1 as stated, for the candidates whose existence check is made: a candidate
\* whose identity has a non-trashed artifact when the run starts is counted
\* skipped, is not uploaded, and no artifact is created for it.
C1_Original ==
  \A i \in Steps(trace) :
    (Checked(trace[i]) /\ ExistedAtStart(trace[i].key)) =>
      /\ trace[i].outcome = "skipped"
      /\ "upload" \notin Ops(trace[i])
      /\ \A j \in NewArtifacts : artifacts[j].value # trace[i].key

\* C1, amended: in every run of a sequence of runs, each with cold caches, an
\* identity that has a non-trashed artifact when the run starts is never
\* downloaded or uploaded and gets no new artifact; its candidate is counted
\* skipped whenever its existence check returns.  An entry that an earlier run
\* uploaded from a zip whose marker update failed gets no new artifact when the
\* zip is processed again.
C1_NeverUploadedAgain ==
  /\ \A j \in NewArtifacts : ~ExistedAtStart(artifacts[j].value)
  /\ \A i \in Steps(trace) :
       ExistedAtStart(trace[i].key) =>
         /\ trace[i].outcome # "uploaded"
         /\ Ops(trace[i]) \cap {"download", "upload"} = {}
         /\ trace[i].exists # "none" =>
              trace[i].exists = "true" /\ trace[i].outcome = "skipped"
  /\ \A r \in EarlierRuns : \A u \in 1..Len(done_runs[r].trace) :
       UploadedUnmarked(r, u) =>
         /\ \A j \in NewArtifacts : artifacts[j].value # done_runs[r].trace[u].key
         /\ \A i \in Steps(trace) :
              trace[i].cand = done_runs[r].trace[u].cand => trace[i].outcome # "uploaded"

\* a zip whose marker update failed is processed again and its entry, uploaded
\* by the earlier run, is skipped
C1_Witness ==
  \E r \in EarlierRuns : \E u \in 1..Len(done_runs[r].trace) :
    /\ UploadedUnmarked(r, u)
    /\ \E i \in Steps(trace) :
         /\ trace[i].cand = done_runs[r].trace[u].cand
         /\ trace[i].key = done_runs[r].trace[u].key
         /\ HasCall(trace[i], "exists.list", TRUE)
         /\ trace[i].outcome = "skipped"

\* C2: live sync: whatever raises in the pipeline of an item (the date
\* conversion, ensure_date_folder, the existence check, the download, the
\* upload), the item is counted failed once with one failure descriptor of its
\* id, the loop goes on with the next item, and no run is ended by an item.
C2_LiveFailureIsolation ==
  script = "backup_favorites" =>
    /\ \A r \in 1..Len(Runs) : \A i \in Steps(Runs[r].trace) :
         Runs[r].trace[i].outcome # "raised"
    /\ Len(failures) = counts.failed
    /\ \A i \in Steps(trace) :
         /\ trace[i].outcome \in {"uploaded", "skipped", "failed"}
         /\ (\E k \in 1..Len(trace[i].calls) : ~trace[i].calls[k].ok) =>
              trace[i].outcome = "failed"
         /\ ~IsoToKstDate(library[trace[i].cand[2]].creationTime).ok =>
              trace[i].outcome = "failed"

\* the zip of the event at position o of the history is no longer being read
ZipLeft(o) == ~(pc = "entries" /\ pending[pos].id = trace[o].cand[1])

\* C3: archive sync: an error raised while a favorite entry is handled (the date
\* conversion and ensure_date_folder included) is recorded as one failure and
\* the remaining entries of the same zip are still examined.
C3_ArchiveFailureIsolation ==
  script = "check_takeout_and_process" =>
    /\ \A i \in Steps(trace) : trace[i].outcome # "raised"
    /\ \A o \in 1..Len(trace) :
         (trace[o].outcome = "opened" /\ ZipLeft(o)) =>
           Cardinality({i \in Steps(trace) : trace[i].cand[1] = trace[o].cand[1]})
             = Len(staging[trace[o].cand[1]].entries)

\* the steps of the current run (one DriveClient) whose ensure_date_folder
\* returned a folder for the label
Ensured(label) == {i \in Steps(trace) : trace[i].label = label /\ trace[i].folder # 0}

Labels == {trace[i].label : i \in Steps(trace)} \ {-1}

\* C8: on one DriveClient, the successful ensure_date_folder calls of a key
\* return the same folder id, at most one of them issues a creation call, and
\* every one after the first is served from the cache with no remote call.
C8_EnsureDateFolderOnce ==
  \A label \in Labels :
    /\ \A i, j \in Ensured(label) : trace[i].folder = trace[j].folder
    /\ Cardinality({i \in Ensured(label) : "ensure.create" \in Ops(trace[i])}) <= 1
    /\ \A i, j \in Ensured(label) :
         i < j => /\ HasCall(trace[j], "ensure.cache", TRUE)
                  /\ Ops(trace[j]) \cap {"ensure.list", "ensure.create"} = {}

C8_Witness ==
  \E label \in Labels : \E i, j \in Ensured(label) :
    /\ i < j
    /\ HasCall(trace[i], "ensure.create", TRUE)
    /\ trace[j].folder = trace[i].folder
    /\ HasCall(trace[j], "ensure.cache", TRUE)

\* C9: an existence check that asks the remote store (cold cache) and returns
\* answers true for an identity an upload_file has given to a file, and false
\* for an identity no non-trashed file was ever uploaded with.
C9_ExistsAfterUpload ==
  \A r \in 1..Len(Runs) : \A i \in Steps(Runs[r].trace) :
    LET s == Runs[r].trace[i]
    IN HasCall(s, "exists.list", TRUE) => (s.exists = "true" <=> s.known)

\* a run that starts with a cold cache is told true for an identity an earlier
\* run uploaded
C9_Witness ==
  \E r \in EarlierRuns : \E u \in Steps(done_runs[r].trace) : \E i \in Steps(trace) :
    /\ done_runs[r].trace[u].outcome = "uploaded"
    /\ HasCall(done_runs[r].trace[u], "exists.list", TRUE)
    /\ done_runs[r].trace[u].exists = "false"
    /\ trace[i].key = done_runs[r].trace[u].key
    /\ HasCall(trace[i], "exists.list", TRUE)
    /\ trace[i].exists = "true"

ValidItem(item) == ~MissingRequiredFields(item) /\ item.creationTime.kind = "utc"

\* the run a of live sync is a non-dry run without failures in which the item
\* at position i had no artifact in the store
FirstRunOf(a, i) ==
  /\ script = "backup_favorites"
  /\ ValidItem(library[i])
  /\ ~done_runs[a].dry_run
  /\ ~done_runs[a].crashed
  /\ done_runs[a].counts.failed = 0
  /\ ~done_runs[a].trace[i].known

\* the later runs that reached the item at position i
LaterRuns(a, i) == {b \in (a + 1)..Len(Runs) : i <= Len(Runs[b].trace)}

\* C10 as stated, for the second runs that make the existence check of the
\* item: the first run counts the item uploaded; a second run over the same
\* source counts it skipped and makes no download or upload for it.
C10_Original ==
  \A a \in 1..Len(done_runs) : \A i \in 1..Len(library) :
    FirstRunOf(a, i) =>
      /\ done_runs[a].trace[i].outcome = "uploaded"
      /\ \A b \in LaterRuns(a, i) :
           Checked(Runs[b].trace[i]) =>
           /\ Runs[b].trace[i].outcome = "skipped"
           /\ Ops(Runs[b].trace[i]) \cap {"download", "upload"} = {}

\* C10, amended: the first run counts the item uploaded (uploaded=1,
\* skipped=0); a second run over the same source makes no download or upload
\* for it, never counts it uploaded, and counts it skipped (uploaded=0,
\* skipped=1) whenever its existence check returns.
C10_LiveIdempotence ==
  \A a \in 1..Len(done_runs) : \A i \in 1..Len(library) :
    FirstRunOf(a, i) =>
      /\ done_runs[a].trace[i].outcome = "uploaded"
      /\ done_runs[a].counts.uploaded >= 1
      /\ \A b \in LaterRuns(a, i) :
           /\ Ops(Runs[b].trace[i]) \cap {"download", "upload"} = {}
           /\ Runs[b].trace[i].outcome # "uploaded"
           /\ Runs[b].trace[i].exists # "none" =>
                /\ Runs[b].trace[i].exists = "true"
                /\ Runs[b].trace[i].outcome = "skipped"

\* two full runs over a one-item source: 1 uploaded, 0 skipped, then 0
\* uploaded, 1 skipped
C10_Witness ==
  /\ script = "backup_favorites"
  /\ Len(library) = 1
  /\ Len(done_runs) = 2
  /\ FirstRunOf(1, 1)
  /\ done_runs[1].counts.uploaded = 1 /\ done_runs[1].counts.skipped = 0
  /\ done_runs[2].counts.uploaded = 0 /\ done_runs[2].counts.skipped = 1
  /\ Ops(done_runs[2].trace[1]) \cap {"download", "upload"} = {}

\* the item or metadata entry a step of the history handled
ItemOf(s) == library[s.cand[2]]

EntryOf(s) == staging[s.cand[1]].entries[s.cand[2]]

\* the candidate of the step has everything the validation asks for
PassesValidation(s) ==
  IF script = "backup_favorites" THEN ~MissingRequiredFields(ItemOf(s))
  ELSE EntryOf(s).favorite /\ EntryOf(s).media /\ EntryOf(s).taken.kind # "none"

DryRuns == {r \in 1..Len(Runs) : Runs[r].dry_run}

\* C11 as stated, for the candidates whose existence check is made: in a dry
\* run no candidate is downloaded or uploaded, and every candidate that passes
\* validation is counted skipped.
C11_Original ==
  \A r \in DryRuns : \A i \in Steps(Runs[r].trace) :
    LET s == Runs[r].trace[i]
    IN /\ Ops(s) \cap {"download", "upload"} = {}
       /\ (PassesValidation(s) /\ Checked(s)) => s.outcome = "skipped"

\* C11, amended: in a dry run no candidate is downloaded or uploaded and
\* uploaded stays 0; every candidate that passes validation and whose lookups
\* (ensure_date_folder, the existence check) return is counted skipped, whatever
\* the existence check answered, and those lookups are performed.
C11_DryRunNoTransfer ==
  \A r \in DryRuns :
    /\ Runs[r].counts.uploaded = 0
    /\ \A i \in Steps(Runs[r].trace) :
         LET s == Runs[r].trace[i]
         IN /\ Ops(s) \cap {"download", "upload"} = {}
            /\ s.outcome # "uploaded"
            /\ (PassesValidation(s) /\ s.exists # "none") =>
                 /\ s.outcome = "skipped"
                 /\ Ops(s) \cap {"ensure.list", "ensure.cache"} # {}
                 /\ Ops(s) \cap {"exists.list", "exists.cache"} # {}
            /\ s.outcome = "skipped" => s.exists # "none"

\* a dry run asked the store about an identity it does not hold and skipped it
C11_Witness ==
  \E r \in DryRuns : \E i \in Steps(Runs[r].trace) :
    /\ Runs[r].trace[i].outcome = "skipped"
    /\ HasCall(Runs[r].trace[i], "exists.list", TRUE)
    /\ Runs[r].trace[i].exists = "false"
    /\ Runs[r].counts.skipped >= 1

\* the calls that change the remote store when they return
Mutations == {"ensure.create", "upload", "update"}

\* C12: a dry run has no side effect on the remote store: none of its steps
\* creates a date folder, creates an artifact or updates a metadata property
\* (the processed marker of a zip included).
C12_DryRunNoSideEffect ==
  \A r \in DryRuns : \A i \in 1..Len(Runs[r].trace) :
    \A op \in Mutations : ~HasCall(Runs[r].trace[i], op, TRUE)

\* the marker updates attempted in the current run for the zip z
UpdatesOf(z) ==
  {c \in 1..Len(trace) : trace[c].cand = <<z, 0>> /\ trace[c].outcome = "closed"}

\* C13: a zip that was downloaded and whose entries were handled gets exactly
\* one marker update attempt, however many of its entries failed; an update
\* that raises is swallowed and leaves the zip unmarked.
C13_OneMarkerUpdate ==
  script = "check_takeout_and_process" =>
    \A o \in 1..Len(trace) :
      (trace[o].outcome = "opened" /\ ZipLeft(o)) =>
        /\ Cardinality(UpdatesOf(trace[o].cand[1])) = 1
        /\ \A c \in UpdatesOf(trace[o].cand[1]) :
             HasCall(trace[c], "update", FALSE) => trace[o].cand[1] \notin zip_marked

\* how the run of a summary ended: by the final `return 1 if counts.failed else
\* 0`, by one of the returns of the trigger check, or by an exception
EndedBy(r) ==
  LET last == r.trace[Len(r.trace)]
  IN IF r.crashed THEN "exception"
     ELSE IF r.trace = <<>> THEN "return"
     ELSE IF last.outcome \in {"imap_error", "not_triggered"} THEN last.outcome
     ELSE "return"

\* C14 as stated, for the runs that end by a return statement: the exit status
\* is zero if and only if the failed count is 0.
C14_Original ==
  \A r \in 1..Len(done_runs) :
    ~done_runs[r].crashed =>
      (done_runs[r].exit_status = 0 <=> done_runs[r].counts.failed = 0)

\* C14, amended: a run that reaches its final return exits with zero if and
\* only if its failed count is 0; a run that exits with zero has failed = 0; a
\* run whose trigger check raises exits with 1 although failed is 0; a run
\* without trigger exits with zero; a run ended by an exception exits non-zero.
C14_ExitStatus ==
  \A r \in 1..Len(done_runs) :
    LET d == done_runs[r]
    IN /\ d.exit_status \in {0, 1}
       /\ d.exit_status = 0 => d.counts.failed = 0
       /\ EndedBy(d) = "return" => (d.exit_status = 0 <=> d.counts.failed = 0)
       /\ EndedBy(d) = "imap_error" => (d.exit_status = 1 /\ d.counts.failed = 0)
       /\ EndedBy(d) = "not_triggered" => d.exit_status = 0
       /\ EndedBy(d) = "exception" => d.exit_status # 0

\* a run with a failed candidate returned 1 and a run without returned 0
C14_Witness ==
  \E a, b \in 1..Len(done_runs) :
    /\ EndedBy(done_runs[a]) = "return"
    /\ done_runs[a].counts.failed > 0
    /\ done_runs[a].exit_status = 1
    /\ EndedBy(done_runs[b]) = "return"
    /\ done_runs[b].counts.uploaded + done_runs[b].counts.skipped > 0
    /\ done_runs[b].exit_status = 0

\* the zips that carried the marker when the current run started
MarkedAtStart ==
  {z \in 1..Len(staging) :
     \E r \in EarlierRuns : \E c \in 1..Len(done_runs[r].trace) :
       /\ done_runs[r].trace[c].cand = <<z, 0>>
       /\ done_runs[r].trace[c].outcome = "closed"
       /\ HasCall(done_runs[r].trace[c], "update", TRUE)}

UnmarkedAtStart == {z \in 1..Len(staging) : z \notin MarkedAtStart}

\* zip a comes before zip b in the order (modification time, name)
Before(a, b) ==
  \/ staging[a].modifiedTime < staging[b].modifiedTime
  \/ staging[a].modifiedTime = staging[b].modifiedTime /\ staging[a].name < staging[b].name

\* the downloads of zips in the current run, by position in the history
ZipDownloads ==
  {o \in 1..Len(trace) :
     trace[o].cand[1] > 0 /\ trace[o].cand[2] = 0 /\ trace[o].outcome \in {"opened", "failed"}}

Listed == trace # <<>> /\ trace[1].outcome = "listed"

AtGate ==
  /\ script = "check_takeout_and_process"
  /\ Len(trace) = 1
  /\ trace[1].outcome \in {"forced", "triggered", "not_triggered", "imap_error"}

\* the step ends a run at the trigger check because no mail was found
NotTriggeredStep ==
  /\ trace' # trace
  /\ Len(trace') = 1
  /\ trace'[1].outcome = "not_triggered"

\* C16: a run without --force whose trigger check finds no mail makes no
\* remote-store operation, leaves the store as it is and returns 0; a run with
\* --force goes on to the listing without looking at the mailbox.
C16_TriggerGating ==
  /\ [](AtGate =>
          /\ trace[1].key = "none" =>
               /\ trace[1].outcome = "not_triggered"
               /\ trace[1].calls = <<Called("imap", TRUE)>>
               /\ pc = "idle"
               /\ exit_status = 0
               /\ ~crashed
               /\ counts = ZeroCounts
               /\ Len(artifacts) = arts_at_start
          /\ trace[1].outcome = "forced" =>
               /\ trace[1].calls = <<>>
               /\ pc = "gated"
               /\ ENABLED TakeoutList
          /\ trace[1].outcome = "triggered" => (trace[1].key = "ready" /\ pc = "gated"))
  /\ [][NotTriggeredStep => UNCHANGED <<folders, artifacts, zip_marked>>]_vars

\* no mail, no --force, a zip waiting in the Takeout folder: the run returned 0
C16_Witness ==
  /\ AtGate
  /\ trace[1].key = "none"
  /\ Len(staging) > 0
  /\ zip_marked = {}
  /\ pc = "idle"
  /\ exit_status = 0

\* the candidate of the step lacks what the validation asks for: a live item
\* without id, baseUrl or creationTime, a favorite entry without media entry or
\* without capture time
FailsValidation(s) ==
  IF script = "backup_favorites"
  THEN ItemOf(s).id = "" \/ ~ItemOf(s).baseUrl \/ ItemOf(s).creationTime.kind = "none"
  ELSE EntryOf(s).favorite /\ (~EntryOf(s).media \/ EntryOf(s).taken.kind = "none")

\* the step handles a candidate that fails validation
InvalidStep ==
  /\ Len(trace') = Len(trace) + 1
  /\ trace'[Len(trace')].cand[2] > 0
  /\ FailsValidation(trace'[Len(trace')])

\* C17: a candidate that fails validation is counted failed exactly once, with
\* one failure descriptor, and nothing is done for it: no ensure_date_folder, no
\* existence check, no download, no upload, no extraction, the store unchanged.
C17_ValidationFailsAtOnce ==
  /\ [](\A r \in 1..Len(Runs) : \A i \in Steps(Runs[r].trace) :
          FailsValidation(Runs[r].trace[i]) =>
            /\ Runs[r].trace[i].outcome = "failed"
            /\ Runs[r].trace[i].calls = <<>>)
  /\ [][InvalidStep =>
          /\ counts'.failed = counts.failed + 1
          /\ counts'.uploaded = counts.uploaded
          /\ counts'.skipped = counts.skipped
          /\ Len(failures') = Len(failures) + 1
          /\ UNCHANGED <<folders, artifacts, zip_marked, date_folder_cache, id_exists_cache>>]_vars

\* a run went over a candidate that fails validation and over another one
C17_Witness ==
  \E i, j \in Steps(trace) :
    /\ i < j
    /\ FailsValidation(trace[i])
    /\ trace[i].outcome = "failed"
    /\ trace[i].calls = <<>>
    /\ counts.failed >= 1
    /\ ~FailsValidation(trace[j])

\* the run-level errors: a setting that cannot be read, credentials that cannot
\* be obtained, a listing of the Takeout folder that fails
RunLevelErrors == {"env", "credentials", "list_children"}

\* the history holds a run-level error
HitRunLevelError(tr) ==
  \E i \in 1..Len(tr) : \E f \in RunLevelErrors : HasCall(tr[i], f, FALSE)

\* C18: a run that meets a run-level error ends with a non-zero exit status
\* and has processed no candidate: no download, no upload, no folder creation,
\* no metadata update in that run.
C18_RunLevelAbort ==
  \A r \in 1..Len(done_runs) :
    HitRunLevelError(done_runs[r].trace) =>
      /\ done_runs[r].exit_status # 0
      /\ Steps(done_runs[r].trace) = {}
      /\ \A i \in 1..Len(done_runs[r].trace) :
           Ops(done_runs[r].trace[i]) \cap (Mutations \cup {"download", "zip.download"}) = {}

\* the step handles a metadata entry whose favorite flag decodes to false
NonFavoriteStep ==
  /\ script = "check_takeout_and_process"
  /\ Len(trace') = Len(trace) + 1
  /\ trace'[Len(trace')].cand[2] > 0
  /\ ~EntryOf(trace'[Len(trace')]).favorite

\* the zips of the current run that were read to the end and hold metadata
\* entries, none of them a favorite
NonFavoriteZips ==
  {z \in 1..Len(staging) :
     /\ UpdatesOf(z) # {}
     /\ staging[z].entries # <<>>
     /\ \A e \in 1..Len(staging[z].entries) : ~staging[z].entries[e].favorite}

\* C19: for a metadata entry whose favorite flag decodes to false nothing is
\* done (no extraction or hashing, no existence lookup, no ensure_date_folder,
\* no upload) and no counter changes; a zip whose entries are all non-favorite
\* yields no upload and no extraction.
C19_NonFavoriteIgnored ==
  /\ [](script = "check_takeout_and_process" =>
          /\ \A r \in 1..Len(Runs) : \A i \in Steps(Runs[r].trace) :
               ~EntryOf(Runs[r].trace[i]).favorite =>
                 /\ Runs[r].trace[i].outcome = "ignored"
                 /\ Runs[r].trace[i].calls = <<>>
          /\ \A z \in NonFavoriteZips : \A i \in Steps(trace) :
               trace[i].cand[1] = z => Ops(trace[i]) \cap {"extract", "upload"} = {})
  /\ [][NonFavoriteStep =>
          /\ counts' = counts
          /\ failures' = failures
          /\ UNCHANGED <<folders, artifacts, zip_marked, date_folder_cache, id_exists_cache>>]_vars

\* a zip of two metadata entries, both not favorite, was read to the end
C19_Witness ==
  \E z \in NonFavoriteZips :
    /\ Len(staging[z].entries) = 2
    /\ Cardinality({i \in Steps(trace) : trace[i].cand[1] = z}) = 2
    /\ counts.uploaded = 0
    /\ counts.favorites_found = 0

(***************************************************************************)
(* C20.  Favorite-flag value decoding.                                     *)
(***************************************************************************)
IsFavoriteFamily == {"isFavorite", "favorite", "favorited", "is_favorite"}

StarFamily == {"starred", "isStarred"}

Recognised == IsFavoriteFamily \cup StarFamily

\* the strings of the pool that are "true", "1", "yes" or "y" up to letter case
TrueSpellings == {<<"t", "r", "u", "e">>, <<"T", "r", "u", "e">>, <<"1">>, <<"Y">>}

\* the same, with surrounding blanks allowed
PaddedTrueSpellings == TrueSpellings \cup {<<" ", "Y", "E", "S", " ">>}

Returned == fav_pc = "returned"

\* the metadata holds exactly one recognised key, and key is that key
OnlyRecognised(key) == key \in DOMAIN fav_meta /\ DOMAIN fav_meta \cap Recognised = {key}

\* C20 as stated: with one recognised key whose value is a boolean, an unpadded
\* string or a number, the result is true exactly for boolean true and the four
\* true strings in any letter case.
C20_Original ==
  Returned =>
    \A key \in Recognised :
      (/\ OnlyRecognised(key)
       /\ fav_meta[key].type \in {"bool", "str", "num"}
       /\ fav_meta[key].type = "str" => Strip(fav_meta[key].s) = fav_meta[key].s)
      => (fav_out <=> (fav_meta[key] = Bool(TRUE)
                         \/ (fav_meta[key].type = "str"
                               /\ fav_meta[key].s \in TrueSpellings)))

\* C20: with one recognised key, boolean true and the strings "true", "1",
\* "yes", "y" (in any letter case, surrounding blanks ignored) decode to true,
\* a number under an isFavorite-family key decodes to true exactly when it is
\* not zero, and every other value decodes to false; {"isFavorite": "true"} is
\* true, {"favorited": 0} is false, {} is false, {"starred": true} without an
\* isFavorite-family key is true, and metadata with no recognised key is false.
C20_FavoriteDecoding ==
  Returned =>
    /\ \A key \in Recognised :
         OnlyRecognised(key) =>
           (fav_out <=>
              \/ fav_meta[key] = Bool(TRUE)
              \/ fav_meta[key].type = "str" /\ fav_meta[key].s \in PaddedTrueSpellings
              \/ key \in IsFavoriteFamily /\ fav_meta[key].type = "num" /\ fav_meta[key].n # 0)
    /\ (DOMAIN fav_meta = {"isFavorite"}
          /\ fav_meta["isFavorite"] = Str(<<"t", "r", "u", "e">>)) => fav_out
    /\ (DOMAIN fav_meta = {"favorited"} /\ fav_meta["favorited"] = Num(0)) => ~fav_out
    /\ DOMAIN fav_meta = {} => ~fav_out
    /\ ("starred" \in DOMAIN fav_meta
          /\ fav_meta["starred"] = Bool(TRUE)
          /\ DOMAIN fav_meta \cap IsFavoriteFamily = {}) => fav_out
    /\ DOMAIN fav_meta \cap Recognised = {} => ~fav_out

\* {"favorite": "True"} was decoded, to true
C20_Witness ==
  /\ Returned
  /\ DOMAIN fav_meta = {"favorite"}
  /\ fav_meta["favorite"] = Str(<<"T", "r", "u", "e">>)
  /\ fav_out

(***************************************************************************)
(* C21.  Favorite-flag precedence.                                         *)
(***************************************************************************)
Precedence == <<"isFavorite", "favorite", "favorited", "is_favorite">>

StarPrecedence == <<"starred", "isStarred">>

\* what a single value stands for
ValueTrue(v, numbers) ==
  \/ v = Bool(TRUE)
  \/ v.type = "str" /\ v.s \in PaddedTrueSpellings
  \/ numbers /\ v.type = "num" /\ v.n # 0

\* the value has a type the loop over this family returns on
Decodable(key, numbers) ==
  /\ key \in DOMAIN fav_meta
  /\ \/ fav_meta[key].type \in {"bool", "str"}
     \/ numbers /\ fav_meta[key].type = "num"

\* C21 as stated: the first isFavorite-family key present decides alone,
\* whatever its value.
C21_Original ==
  Returned =>
    \A i \in 1..Len(Precedence) :
      (/\ Precedence[i] \in DOMAIN fav_meta
       /\ \A j \in 1..(i - 1) : Precedence[j] \notin DOMAIN fav_meta)
      => (fav_out <=> ValueTrue(fav_meta[Precedence[i]], TRUE))

\* C21: among isFavorite, favorite, favorited, is_favorite (in that order) the
\* first key present with a boolean, string or number value alone determines
\* the result; a present key with a value of another type is passed over; the
\* starred/isStarred fallback (first of the two with a boolean or string value)
\* is consulted only when none of the four keys holds such a value, and the
\* result is false when the fallback finds nothing either.
C21_FavoritePrecedence ==
  Returned =>
    /\ \A i \in 1..Len(Precedence) :
         (/\ Decodable(Precedence[i], TRUE)
          /\ \A j \in 1..(i - 1) : ~Decodable(Precedence[j], TRUE))
         => (fav_out <=> ValueTrue(fav_meta[Precedence[i]], TRUE))
    /\ (\A j \in 1..Len(Precedence) : ~Decodable(Precedence[j], TRUE))
         => /\ \A i \in 1..Len(StarPrecedence) :
                 (/\ Decodable(StarPrecedence[i], FALSE)
                  /\ \A j \in 1..(i - 1) : ~Decodable(StarPrecedence[j], FALSE))
                 => (fav_out <=> ValueTrue(fav_meta[StarPrecedence[i]], FALSE))
            /\ (\A i \in 1..Len(StarPrecedence) : ~Decodable(StarPrecedence[i], FALSE))
                 => ~fav_out

\* {"isFavorite": false, "favorite": true} was decoded, to false
C21_Witness ==
  /\ Returned
  /\ DOMAIN fav_meta = {"isFavorite", "favorite"}
  /\ fav_meta["isFavorite"] = Bool(FALSE)
  /\ fav_meta["favorite"] = Bool(TRUE)
  /\ ~fav_out

(***************************************************************************)
(* C22.  Capture-time decoding precedence.                                 *)
(***************************************************************************)
StampOrder == <<"photoTakenTime", "creationTime", "takenTime">>

\* obj.timestamp is present
HasStamp(key) ==
  key \in DOMAIN time_meta /\ time_meta[key].type = "dict" /\ time_meta[key].has

\* the epoch seconds the timestamps of the pool stand for
EpochOf(ts) ==
  CASE ts = Num(5) -> 5 [] ts = Num(60000) -> 60000 [] ts = Str(<<"1", "2">>) -> 12
    [] OTHER -> -1

\* obj.timestamp is present and is a number of epoch seconds
YieldsStamp(key) == HasStamp(key) /\ EpochOf(time_meta[key].inner) >= 0

\* the instant `epoch` rendered in KST
KstIso(epoch) ==
  CASE epoch = 5 -> [kind |-> "iso", day |-> 0, sec |-> 32405, text |-> <<>>]
    [] epoch = 12 -> [kind |-> "iso", day |-> 0, sec |-> 32412, text |-> <<>>]
    [] epoch = 60000 -> [kind |-> "iso", day |-> 1, sec |-> 6000, text |-> <<>>]

HasNestedString ==
  /\ "mediaMetadata" \in DOMAIN time_meta
  /\ time_meta["mediaMetadata"] = Obj("dict", TRUE, Str(IsoText))

TimeReturned == time_pc = "returned"

\* C22 as stated: the first timestamp field that is present wins; no later
\* timestamp field is used in its place.
C22_Original ==
  TimeReturned =>
    \A i \in 1..Len(StampOrder) :
      (HasStamp(StampOrder[i]) /\ \A j \in 1..(i - 1) : ~HasStamp(StampOrder[j]))
      => IF YieldsStamp(StampOrder[i])
         THEN time_out = KstIso(EpochOf(time_meta[StampOrder[i]].inner))
         ELSE time_out.kind # "iso"

\* C22: the result is taken from photoTakenTime.timestamp, then
\* creationTime.timestamp, then takenTime.timestamp: the first one that is
\* present and converts to an integer wins (a present timestamp that does not
\* convert is passed over); the nested creation-time string is used only when
\* none of the three yields a value, and the result is no value only when the
\* nested string is absent (or empty, or not a string) too.
C22_TakenTimePrecedence ==
  TimeReturned =>
    /\ \A i \in 1..Len(StampOrder) :
         (YieldsStamp(StampOrder[i]) /\ \A j \in 1..(i - 1) : ~YieldsStamp(StampOrder[j]))
         => time_out = KstIso(EpochOf(time_meta[StampOrder[i]].inner))
    /\ (\A i \in 1..Len(StampOrder) : ~YieldsStamp(StampOrder[i]))
         => time_out = IF HasNestedString THEN TextTime(IsoText) ELSE NoTakenTime
    /\ time_out.kind = "text" => \A i \in 1..Len(StampOrder) : ~YieldsStamp(StampOrder[i])
    /\ time_out = NoTakenTime => ~HasNestedString

\* photoTakenTime.timestamp = 60000 and creationTime.timestamp = 5 were both
\* present and the result is the former
C22_Witness ==
  /\ TimeReturned
  /\ HasStamp("photoTakenTime") /\ time_meta["photoTakenTime"].inner = Num(60000)
  /\ HasStamp("creationTime") /\ time_meta["creationTime"].inner = Num(5)
  /\ time_out = KstIso(60000)

(***************************************************************************)
(* C23.  One upload per identity within a run.                             *)
(***************************************************************************)
\* C23: within a run, once a candidate with identity K has been uploaded, a
\* later candidate of the same run with identity K is not uploaded, and its
\* existence check, when it answers, reports K as present.
C23_UploadedOncePerRun ==
  \A i \in Steps(trace) : \A j \in Steps(trace) :
    (i < j /\ trace[i].key = trace[j].key /\ trace[i].outcome = "uploaded") =>
      /\ trace[j].outcome # "uploaded"
      /\ trace[j].exists # "none" => trace[j].exists = "true"

(***************************************************************************)
(* C24.  Retry budget of the resumable upload.                             *)
(***************************************************************************)
LastCall == upload_log[Len(upload_log)]

\* C24: the upload is Failed exactly when max_retries + 1 transient errors
\* occurred in the whole transfer (acknowledged chunks in between do not give
\* budget back), Failed raises the transient error of the last call, and an
\* error of another class ends the upload at once with that error: it is the
\* last call, and no sleep follows it.
C24_UploadRetryBudget ==
  /\ upload_pc = "failed" <=> Cardinality(TransientCalls) = upload_policy.max_retries + 1
  /\ Cardinality(TransientCalls) <= upload_policy.max_retries + 1
  /\ upload_pc = "failed" =>
       /\ Len(upload_log) \in TransientCalls
       /\ upload_out = Err(LastCall.outcome, Len(upload_log))
  /\ upload_pc = "propagated" <=> FatalCalls # {}
  /\ FatalCalls # {} =>
       /\ FatalCalls = {Len(upload_log)}
       /\ upload_out = Err(LastCall.outcome, Len(upload_log))
  /\ Len(upload_sleeps) = Cardinality(TransientCalls) - (IF upload_pc = "failed" THEN 1 ELSE 0)

\* Failed after three transient errors with acknowledged chunks between them
C24_Witness ==
  /\ upload_pc = "failed"
  /\ upload_policy.max_retries = 2
  /\ \E i \in TransientCalls : \E j \in TransientCalls : \E k \in TransientCalls :
       /\ i + 1 < j /\ j + 1 < k
       /\ upload_log[i + 1].outcome = "ok"
       /\ upload_log[j + 1].outcome = "ok"

(***************************************************************************)
(* C25.  Two overlapping runs (SpecRace).                                  *)
(***************************************************************************)
\* the non-trashed files that carry the media id
RaceCopies(id) ==
  {i \in 1..Len(race_artifacts) :
     race_artifacts[i] = Artifact("mediaItemId", id, race_artifacts[i].parent, FALSE)}

RaceUploaders(id) ==
  {p \in Procs : race_proc[p].item.id = id /\ race_proc[p].outcome = "uploaded"}

\* C25: nothing between the existence check and the upload of a run looks at
\* the store again: a run that was answered "absent" and is no dry run goes on
\* to download and upload, a run uploads only after the answer "absent", and
\* every upload adds a file; so when two overlapping runs were both answered
\* "absent" for K and both have uploaded, two non-trashed files carry K.
C25_OverlappingRunsDuplicate ==
  /\ \A p \in Procs :
       /\ race_proc[p].pc \in {"download", "upload"} \/ race_proc[p].outcome = "uploaded"
            <=> race_proc[p].exists = "false" /\ ~race_proc[p].dry
       /\ race_proc[p].exists = "true" => race_proc[p].outcome = "skipped"
  /\ \A id \in {"k1", "k2"} :
       /\ Cardinality(RaceCopies(id)) >= Cardinality(RaceUploaders(id))
       /\ RaceUploaders(id) = Procs => Cardinality(RaceCopies(id)) >= 2

\* both runs were answered "absent" for k1 before either had uploaded, both
\* uploaded, and the store holds two non-trashed files with identity k1
C25_Witness ==
  /\ \A p \in Procs :
       /\ race_proc[p].item.id = "k1"
       /\ race_proc[p].exists = "false"
       /\ race_proc[p].outcome = "uploaded"
  /\ Cardinality(RaceCopies("k1")) = 2

(***************************************************************************)
(* C26.  At most one date folder per key.                                  *)
(***************************************************************************)
\* the non-trashed folders of the store with this name under the root
LiveFolders(flds, name) ==
  {i \in 1..Len(flds) : flds[i] = [parent |-> Root, name |-> name, trashed |-> FALSE]}

OnePerKey(flds) ==
  \A i \in 1..Len(flds) : Cardinality(LiveFolders(flds, flds[i].name)) <= 1

\* C26: every step of a sequence of non-overlapping runs (each with a cold
\* cache) keeps "at most one non-trashed folder per (root, date label)", so a
\* store that starts with at most one has at most one after any number of
\* ensure_date_folder calls; a step creates at most one folder, it changes no
\* folder that exists, and it creates one only when no non-trashed folder of
\* that name was under the root.
C26_OneFolderPerKey ==
  [][/\ OnePerKey(folders) => OnePerKey(folders')
     /\ Len(folders') \in {Len(folders), Len(folders) + 1}
     /\ SubSeq(folders', 1, Len(folders)) = folders
     /\ Len(folders') = Len(folders) + 1 =>
          /\ LiveFolders(folders, folders'[Len(folders')].name) = {}
          /\ folders'[Len(folders')] = Folder(folders'[Len(folders')].name, FALSE)]_vars

\* the second run, with a cold cache, asked the remote for the folder that the
\* first run had created, got it and created none: one folder for the key
C26_Witness ==
  /\ run = 2
  /\ \E i \in Steps(trace) : \E u \in Steps(done_runs[1].trace) :
       /\ HasCall(done_runs[1].trace[u], "ensure.create", TRUE)
       /\ trace[i].label = done_runs[1].trace[u].label
       /\ HasCall(trace[i], "ensure.list", TRUE)
       /\ "ensure.create" \notin Ops(trace[i])
       /\ trace[i].folder = done_runs[1].trace[u].folder
       /\ Cardinality(LiveFolders(folders, trace[i].label)) = 1

(***************************************************************************)
(* C27.  Downloads restart from the beginning (SpecDownload).              *)
(***************************************************************************)
\* the destination holds the first n chunks of the remote content, in order,
\* and nothing else
HoldsPrefix(n) == Len(dl_dest) = n /\ \A i \in 1..n : dl_dest[i] = i

\* C27: whatever number of transient failures (at most max_retries) came
\* before, when download_file / download_to_path returns the destination holds
\* exactly the complete remote content once; while an attempt streams, the
\* destination holds exactly what that attempt has read from offset 0, nothing
\* of earlier attempts.
C27_DownloadRestarts ==
  /\ dl_pc = "done" => HoldsPrefix(dl_size) /\ dl_attempt <= dl_policy.max_retries
  /\ dl_pc = "stream" => HoldsPrefix(dl_offset)

\* a download of three chunks returned after two attempts that had written
\* chunks and failed
C27_Witness ==
  /\ dl_pc = "done"
  /\ dl_size = 3
  /\ dl_attempt = 2
  /\ dl_wasted >= 3
  /\ dl_dest = <<1, 2, 3>>

(***************************************************************************)
(* C28.  A pending archive whose download fails.                           *)
(***************************************************************************)
\* the event of a zip whose download_file raised
DownloadFailed(e) == e.cand[2] = 0 /\ HasCall(e, "zip.download", FALSE)

\* the step appends such an event to the history
DownloadFails ==
  /\ Len(trace') = Len(trace) + 1
  /\ DownloadFailed(trace'[Len(trace')])

\* C28: when the download of a pending archive fails, the run records exactly
\* one failure for it (failed grows by one, one descriptor naming the zip),
\* never opens it, handles no entry of it and makes no marker update for it:
\* the zip stays unmarked and the store as it was; the run goes on with the
\* next pending archive.
C28_ArchiveDownloadFailure ==
  /\ [](/\ \A r \in 1..Len(Runs) : \A i \in 1..Len(Runs[r].trace) :
             DownloadFailed(Runs[r].trace[i]) =>
               /\ Runs[r].trace[i].outcome = "failed"
               /\ \A j \in 1..Len(Runs[r].trace) :
                    j # i => Runs[r].trace[j].cand[1] # Runs[r].trace[i].cand[1]
        /\ \A i \in 1..Len(trace) :
             DownloadFailed(trace[i]) => trace[i].cand[1] \notin zip_marked)
  /\ [][DownloadFails =>
          /\ counts' = [counts EXCEPT !.failed = @ + 1, !.takeout_files_processed = @ + 1]
          /\ failures' = Append(failures, Failure("takeoutZip", pending[pos].name))
          /\ trace'[Len(trace')].cand = <<pending[pos].id, 0>>
          /\ UNCHANGED <<zip_marked, folders, artifacts, pending>>
          /\ pc' = "zips"
          /\ pos' = pos + 1]_vars

\* the first run could not download the first pending zip and went on with the
\* second one; the second run finds the zip still pending and opens it
C28_Witness ==
  /\ run = 2
  /\ \E i \in 1..Len(done_runs[1].trace) : \E j \in 1..Len(done_runs[1].trace) :
       \E k \in 1..Len(trace) :
         /\ DownloadFailed(done_runs[1].trace[i])
         /\ i < j
         /\ done_runs[1].trace[j].outcome = "opened"
         /\ trace[k].outcome = "opened"
         /\ trace[k].cand = done_runs[1].trace[i].cand

(***************************************************************************)
(* C29.  Archive-sync: the date folder and skipped entries.                *)
(***************************************************************************)
EnsureOps == {"ensure.cache", "ensure.list", "ensure.create"}

\* C29: in archive-sync an entry that is counted skipped (its hash exists in
\* the store, or the run is a dry run) had no ensure_date_folder call: no
\* folder lookup, no folder creation and no folder id for it.
C29_EnsureOnlyOnUpload ==
  script = "check_takeout_and_process" =>
    \A i \in Steps(trace) :
      trace[i].outcome = "skipped" =>
        Ops(trace[i]) \cap EnsureOps = {} /\ trace[i].folder = 0

(***************************************************************************)
(* C30.  Live-sync count invariant.                                        *)
(***************************************************************************)
Balanced(cnt) == cnt.total = cnt.uploaded + cnt.skipped + cnt.failed

Counted(tr, outcome) == Cardinality({i \in Steps(tr) : tr[i].outcome = outcome})

\* the loop of a live-sync run is between two items, or the run has returned
AtItemBoundary == script = "backup_favorites" /\ pc = "items"

LiveCompleted == script = "backup_favorites" /\ pc = "idle" /\ run > 0 /\ ~crashed

\* C30: at every item boundary of the live-sync loop and at the end of a
\* completed run, total = uploaded + skipped + failed: every item yielded so
\* far is counted in exactly one of the three, and there are as many failure
\* descriptors as failed says.
C30_LiveCountInvariant ==
  (AtItemBoundary \/ LiveCompleted) =>
    /\ Balanced(counts)
    /\ counts.total = Cardinality(Steps(trace))
    /\ counts.uploaded = Counted(trace, "uploaded")
    /\ counts.skipped = Counted(trace, "skipped")
    /\ counts.failed = Counted(trace, "failed")
    /\ Len(failures) = counts.failed

\* a completed run over two items: one uploaded, one failed
C30_Witness ==
  /\ LiveCompleted
  /\ counts.total = 2
  /\ counts.uploaded = 1
  /\ counts.failed = 1
  /\ Len(failures) = 1

(***************************************************************************)
(* C31.  Temporary files.                                                  *)
(***************************************************************************)
\* the candidates of every run so far for which a temporary file was created
TempCandidates ==
  UNION {{Runs[r].trace[i].cand :
            i \in {j \in Steps(Runs[r].trace) : CreatedTemp(Runs[r].trace[j].calls)}}
         : r \in 1..Len(Runs)}

RECURSIVE ItemsThrough(_, _)
\* the items of the first n pages, in page order and item order
ItemsThrough(pages, n) ==
  IF n = 0 THEN <<>> ELSE ItemsThrough(pages, n - 1) \o pages[n].items

OkFetches == SelectSeq(sr_log, LAMBDA f : f.outcome = "ok")

\* position in the log of the last fetch that returned a page, 0 if none did
LastOk ==
  IF \E k \in 1..Len(sr_log) : sr_log[k].outcome = "ok"
  THEN CHOOSE k \in 1..Len(sr_log) :
         /\ sr_log[k].outcome = "ok"
         /\ \A m \in (k + 1)..Len(sr_log) : sr_log[m].outcome # "ok"
  ELSE 0

IsPrefix(s, t) == Len(s) <= Len(t) /\ SubSeq(t, 1, Len(s)) = s

\* the generator has ended or its error has left it
SearchOver == sr_pc \in {"raised", "ended"}

\* C32: search_favorites_by_date_range yields the items of every page in
\* page order and item order; the fetch of page n+1 happens only once every
\* item of page n has been delivered, and carries the token page n reported;
\* the generator ends exactly at the page that reports no token (absent or
\* empty), having delivered everything; when a fetch fails for good (the
\* retry budget of max_retries + 1 attempts used up on RequestExceptions)
\* the error leaves the generator, every item of the pages fetched before
\* has been delivered, and nothing is delivered afterwards.
C32_SearchPagination ==
  /\ [](sr_pc # "idle" =>
          LET ok == OkFetches
              n == Len(ok)
          IN  /\ n <= Len(sr_pages)
              /\ \A k \in 1..n :
                   /\ ok[k].token = (IF k = 1 THEN NoToken ELSE sr_pages[k - 1].token)
                   /\ ok[k].at = Len(ItemsThrough(sr_pages, k - 1))
              /\ IsPrefix(sr_yielded, ItemsThrough(sr_pages, n))
              /\ (n >= 1 =>
                    IsPrefix(ItemsThrough(sr_pages, n - 1), sr_yielded))
              /\ (sr_pc = "fetch" /\ n >= 1 => ~Falsy(sr_pages[n].token))
              /\ (sr_pc = "ended" =>
                    /\ n >= 1
                    /\ Falsy(sr_pages[n].token)
                    /\ \A k \in 1..(n - 1) : ~Falsy(sr_pages[k].token)
                    /\ sr_yielded = ItemsThrough(sr_pages, n))
              /\ (sr_pc = "raised" =>
                    /\ Len(sr_log) > LastOk
                    /\ sr_yielded = ItemsThrough(sr_pages, n)
                    /\ (IsRetryable("with_retries", sr_log[Len(sr_log)].outcome) =>
                          Len(sr_log) - LastOk = sr_policy.max_retries + 1)))
  /\ [][SearchOver => (sr_yielded' = sr_yielded /\ sr_pc' = sr_pc)]_vars

\* a fetch of the third page used up a budget of several attempts after the
\* items of two pages were delivered
C32_Witness ==
  /\ sr_pc = "raised"
  /\ Len(OkFetches) = 2
  /\ Len(sr_yielded) >= 3
  /\ sr_attempt = sr_policy.max_retries
  /\ sr_attempt > 0
  /\ IsRetryable("with_retries", sr_log[Len(sr_log)].outcome)


RECURSIVE ChildrenOf(_, _, _)
\* the children of the pages answered by the first n requests, in order
ChildrenOf(pages, log, n) ==
  IF n = 0 THEN <<>> ELSE ChildrenOf(pages, log, n - 1) \o pages[log[n].page].items

RECURSIVE TokenChain(_, _, _)
\* the pages met when following the tokens from page k, for at most `fuel`
\* pages, up to and including the first one without a token
TokenChain(pages, k, fuel) ==
  IF fuel = 0 THEN <<>>
  ELSE IF Falsy(pages[k].token) THEN <<k>>
  ELSE <<k>> \o TokenChain(pages, ListedPage(pages, pages[k].token), fuel - 1)

\* following the tokens from the first page leads to a page without one
EndsWithoutToken(pages) ==
  LET chain == TokenChain(pages, 1, Len(pages))
  IN  Falsy(pages[chain[Len(chain)]].token)

ListOver == ls_pc \in {"returned", "raised"}

\* C33: list_children requests the first page without a token and every
\* further page with the token the previous page carried; it goes on only
\* after a page that carries a token and a request that succeeded; it
\* returns, at the first page that carries none, the children of all the
\* pages requested, concatenated in page order; a request that fails makes
\* it raise and nothing is returned; it returns only if following the
\* tokens leads to a page without one, and when they do lead to one the
\* call comes to an end.
C33_ListChildren ==
  /\ [](ls_pc # "idle" =>
          LET n == Len(ls_log)
          IN  /\ \A k \in 1..n :
                   ls_log[k].token =
                     (IF k = 1 THEN NoToken ELSE ls_pages[ls_log[k - 1].page].token)
              /\ \A k \in 1..(n - 1) :
                   /\ ls_log[k].outcome = "ok"
                   /\ ~Falsy(ls_pages[ls_log[k].page].token)
              /\ (ls_pc = "returned" =>
                    /\ n >= 1
                    /\ ls_log[n].outcome = "ok"
                    /\ Falsy(ls_pages[ls_log[n].page].token)
                    /\ [k \in 1..n |-> ls_log[k].page] = TokenChain(ls_pages, 1, Len(ls_pages))
                    /\ ls_ret = ChildrenOf(ls_pages, ls_log, n)
                    /\ EndsWithoutToken(ls_pages))
              /\ (ls_pc = "raised" <=> (n >= 1 /\ ls_log[n].outcome # "ok"))
              /\ (ls_pc # "returned" => ls_ret = NoReturn))
  /\ [](EndsWithoutToken(ls_pages) /\ ls_pc = "request" => <>ListOver)

\* three pages were requested in a row and their children returned
C33_Witness ==
  /\ ls_pc = "returned"
  /\ Len(ls_log) = 3
  /\ Len(ls_ret) >= 4

====
